---------------------------- MODULE Spec2Model ----------------------------
(***************************************************************************)
(* pyChecco: dynamic backward slicing of Python 3.8 bytecode traces.       *)
(*                                                                         *)
(* The model runs small instrumented code objects forward (the tracer      *)
(* appends the events the instrumentation emits), then runs the slicer     *)
(* backward over the recorded trace, one loop iteration of                 *)
(* DynamicSlicer.slice per step, either for a criterion chosen by the      *)
(* caller of slice() or for every assertion of a test, as                  *)
(* TestExecutor.new_trace does.                                            *)
(***************************************************************************)
EXTENDS Integers, Sequences, FiniteSets, TLC

(***************************************************************************)
(* Opcode classes of the instrumentation and of the slicer.                *)
(***************************************************************************)
OP_UNARY ==
    {"UNARY_POSITIVE", "UNARY_NEGATIVE", "UNARY_NOT", "UNARY_INVERT", "GET_ITER",
     "GET_YIELD_FROM_ITER"}

OP_BINARY ==
    {"BINARY_POWER", "BINARY_MULTIPLY", "BINARY_MATRIX_MULTIPLY", "BINARY_FLOOR_DIVIDE",
     "BINARY_TRUE_DIVIDE", "BINARY_MODULO", "BINARY_ADD", "BINARY_SUBTRACT",
     "BINARY_LSHIFT", "BINARY_RSHIFT", "BINARY_AND", "BINARY_XOR", "BINARY_OR"}

OP_INPLACE ==
    {"INPLACE_POWER", "INPLACE_MULTIPLY", "INPLACE_MATRIX_MULTIPLY",
     "INPLACE_FLOOR_DIVIDE", "INPLACE_TRUE_DIVIDE", "INPLACE_MODULO", "INPLACE_ADD",
     "INPLACE_SUBTRACT", "INPLACE_LSHIFT", "INPLACE_RSHIFT", "INPLACE_AND",
     "INPLACE_XOR", "INPLACE_OR"}

OP_COMPARE == {"COMPARE_OP"}

OP_LOCAL_ACCESS == {"STORE_FAST", "LOAD_FAST", "DELETE_FAST"}

OP_NAME_ACCESS == {"STORE_NAME", "LOAD_NAME", "DELETE_NAME"}

OP_GLOBAL_ACCESS == {"STORE_GLOBAL", "LOAD_GLOBAL", "DELETE_GLOBAL"}

OP_DEREF_ACCESS == {"STORE_DEREF", "LOAD_DEREF", "DELETE_DEREF", "LOAD_CLASSDEREF"}

OP_ATTR_ACCESS == {"STORE_ATTR", "LOAD_ATTR", "DELETE_ATTR", "IMPORT_FROM", "LOAD_METHOD"}

OP_SUBSCR_ACCESS == {"STORE_SUBSCR", "DELETE_SUBSCR", "BINARY_SUBSCR"}

OP_IMPORT_NAME == {"IMPORT_NAME"}

OP_ABSOLUTE_JUMP ==
    {"JUMP_IF_FALSE_OR_POP", "JUMP_IF_TRUE_OR_POP", "JUMP_ABSOLUTE", "POP_JUMP_IF_FALSE",
     "POP_JUMP_IF_TRUE"}

OP_RELATIVE_JUMP ==
    {"FOR_ITER", "JUMP_FORWARD", "SETUP_FINALLY", "SETUP_WITH", "SETUP_ASYNC_WITH",
     "CALL_FINALLY"}

OP_CALL == {"CALL_FUNCTION", "CALL_FUNCTION_KW", "CALL_FUNCTION_EX", "CALL_METHOD", "YIELD_FROM"}

OP_RETURN == {"RETURN_VALUE", "YIELD_VALUE"}

TRACED_INSTRUCTIONS ==
    OP_UNARY \cup OP_BINARY \cup OP_INPLACE \cup OP_COMPARE \cup OP_LOCAL_ACCESS
        \cup OP_NAME_ACCESS \cup OP_GLOBAL_ACCESS \cup OP_DEREF_ACCESS \cup OP_ATTR_ACCESS
        \cup OP_SUBSCR_ACCESS \cup OP_IMPORT_NAME \cup OP_ABSOLUTE_JUMP
        \cup OP_RELATIVE_JUMP \cup OP_CALL \cup OP_RETURN

MEMORY_USE_INSTRUCTIONS ==
    {"LOAD_FAST", "LOAD_NAME", "LOAD_GLOBAL", "LOAD_ATTR", "LOAD_DEREF", "BINARY_SUBSCR",
     "LOAD_METHOD", "IMPORT_FROM", "LOAD_CLOSURE", "LOAD_CLASSDEREF"}

MEMORY_DEF_INSTRUCTIONS ==
    {"STORE_FAST", "STORE_NAME", "STORE_GLOBAL", "STORE_DEREF", "STORE_ATTR",
     "STORE_SUBSCR", "BINARY_SUBSCR", "DELETE_FAST", "DELETE_NAME", "DELETE_GLOBAL",
     "DELETE_ATTR", "DELETE_SUBSCR", "DELETE_DEREF", "IMPORT_NAME"}

COND_BRANCH_INSTRUCTIONS ==
    {"POP_JUMP_IF_TRUE", "POP_JUMP_IF_FALSE", "JUMP_IF_TRUE_OR_POP",
     "JUMP_IF_FALSE_OR_POP", "FOR_ITER"}

UNCERTAIN ==
    {"WITH_CLEANUP_START", "WITH_CLEANUP_FINISH", "SETUP_ASYNC_WITH", "END_ASYNC_FOR",
     "FORMAT_VALUE"}

\* bytecode.Instr.is_uncond_jump
UNCOND_JUMP == {"JUMP_FORWARD", "JUMP_ABSOLUTE"}

(***************************************************************************)
(* The stack effect oracle.  A result is [err, pops, pushes]; err is       *)
(* "uncertain" (UncertainStackEffectException), "value" (ValueError) or    *)
(* "" for a pair (pops, pushes).                                           *)
(***************************************************************************)
SE(pops, pushes) == [err |-> "", pops |-> pops, pushes |-> pushes]

\* the static table _SE, restricted to the opcodes of Python 3.8
StaticSE(op) ==
    CASE op \in {"NOP", "EXTENDED_ARG", "POP_BLOCK", "JUMP_FORWARD", "JUMP_ABSOLUTE",
                 "DELETE_FAST", "DELETE_NAME", "DELETE_GLOBAL", "DELETE_DEREF",
                 "SETUP_ANNOTATIONS"} -> SE(0, 0)
      [] op \in {"POP_TOP", "STORE_FAST", "STORE_NAME", "STORE_GLOBAL", "STORE_DEREF",
                 "POP_JUMP_IF_FALSE", "POP_JUMP_IF_TRUE", "RETURN_VALUE", "DELETE_ATTR",
                 "PRINT_EXPR", "IMPORT_STAR", "LIST_APPEND"} -> SE(1, 0)
      [] op \in {"LOAD_CONST", "LOAD_FAST", "LOAD_NAME", "LOAD_GLOBAL", "LOAD_DEREF",
                 "LOAD_CLOSURE", "LOAD_CLASSDEREF", "LOAD_BUILD_CLASS", "IMPORT_FROM"}
                 -> SE(0, 1)
      [] op \in OP_UNARY \cup {"LOAD_ATTR", "GET_AWAITABLE", "GET_AITER", "YIELD_VALUE"}
                 -> SE(1, 1)
      [] op \in OP_BINARY \cup OP_INPLACE \cup {"COMPARE_OP", "BINARY_SUBSCR", "IMPORT_NAME",
                 "YIELD_FROM", "SET_ADD"} -> SE(2, 1)
      [] op \in {"STORE_ATTR", "DELETE_SUBSCR", "MAP_ADD"} -> SE(2, 0)
      [] op = "STORE_SUBSCR" -> SE(3, 0)
      [] op \in {"LOAD_METHOD", "DUP_TOP", "BEFORE_ASYNC_WITH", "GET_ANEXT"} -> SE(1, 2)
      [] op = "ROT_TWO" -> SE(2, 2)
      [] op = "ROT_THREE" -> SE(3, 3)
      [] op = "ROT_FOUR" -> SE(4, 4)
      [] op = "DUP_TOP_TWO" -> SE(2, 4)
      [] op = "POP_EXCEPT" -> SE(3, 0)
      [] op \in {"END_FINALLY", "POP_FINALLY"} -> SE(6, 0)
      [] op = "BEGIN_FINALLY" -> SE(0, 6)
      [] OTHER -> [err |-> "none", pops |-> 0, pushes |-> 0]

stack_effect(op, arg, jump) ==
    IF op \in UNCERTAIN THEN [err |-> "uncertain", pops |-> 0, pushes |-> 0]
    ELSE IF StaticSE(op).err = "" THEN StaticSE(op)
    ELSE CASE op = "SETUP_WITH" -> IF ~jump THEN SE(0, 1) ELSE SE(0, 6)
           [] op = "FOR_ITER" -> IF ~jump THEN SE(1, 2) ELSE SE(1, 0)
           [] op \in {"JUMP_IF_TRUE_OR_POP", "JUMP_IF_FALSE_OR_POP"} ->
                  IF ~jump THEN SE(1, 0) ELSE SE(0, 0)
           [] op = "SETUP_FINALLY" -> IF ~jump THEN SE(0, 0) ELSE SE(0, 6)
           [] op = "CALL_FINALLY" -> IF ~jump THEN SE(0, 1) ELSE SE(0, 0)
           [] op = "UNPACK_SEQUENCE" -> SE(1, arg)
           [] op = "UNPACK_EX" -> SE(1, (arg % 256) + (arg \div 256) + 1)
           [] op \in {"BUILD_TUPLE", "BUILD_LIST", "BUILD_SET", "BUILD_STRING",
                      "BUILD_LIST_UNPACK", "BUILD_TUPLE_UNPACK",
                      "BUILD_TUPLE_UNPACK_WITH_CALL", "BUILD_SET_UNPACK",
                      "BUILD_MAP_UNPACK", "BUILD_MAP_UNPACK_WITH_CALL"} -> SE(arg, 1)
           [] op = "BUILD_MAP" -> SE(2 * arg, 1)
           [] op = "BUILD_CONST_KEY_MAP" -> SE(1 + arg, 1)
           [] op = "RAISE_VARARGS" -> SE(arg, 0)
           [] op = "CALL_FUNCTION" -> SE(1 + arg, 1)
           [] op \in {"CALL_METHOD", "CALL_FUNCTION_KW"} -> SE(2 + arg, 1)
           [] op = "CALL_FUNCTION_EX" -> SE(2 + (arg % 2), 1)
           [] op = "MAKE_FUNCTION" ->
                  SE(2 + (arg % 2) + ((arg \div 2) % 2) + ((arg \div 4) % 2)
                         + ((arg \div 8) % 2), 1)
           [] op = "BUILD_SLICE" -> IF arg = 3 THEN SE(3, 1) ELSE SE(2, 1)
           [] OTHER -> [err |-> "value", pops |-> 0, pushes |-> 0]

(***************************************************************************)
(* Instructions of the registered code objects.  An instruction carries    *)
(* what the interpreter makes of it at run time: tgt is the index of the   *)
(* block it jumps to, callee the id of the instrumented code object a call *)
(* enters (-1: not instrumented), addr and src the id() of the value and   *)
(* of the object an attribute is taken from (0: None), mut whether the     *)
(* value's type is outside immutable_types, br what a jump does ("jump",   *)
(* "fall", or "any" when both happen at run time), raises whether the      *)
(* instruction raises, tc whether the attribute is an assert method of     *)
(* unittest.TestCase.                                                      *)
(***************************************************************************)
Ins(op, arg, n, line) ==
    [op |-> op, arg |-> arg, n |-> n, line |-> line, tgt |-> -1, callee |-> -1,
     addr |-> 0, src |-> 0, mut |-> FALSE, br |-> "", raises |-> FALSE, tc |-> FALSE]

Mem(op, name, line, addr, mut) ==
    [Ins(op, name, -1, line) EXCEPT !.addr = addr, !.mut = mut]

Attr(op, name, line, src, addr, tc) ==
    [Ins(op, name, -1, line) EXCEPT !.src = src, !.addr = addr, !.mut = TRUE, !.tc = tc]

Jmp(op, tgt, line, br) ==
    [Ins(op, "", -1, line) EXCEPT !.tgt = tgt, !.br = br]

Call(op, n, line, callee) ==
    [Ins(op, "", n, line) EXCEPT !.callee = callee]

NoInstr == Ins("", "", -1, -1)

\* example.py: foo = 1; result = 3; if foo == 1: result = 1; return result
Co_control_dependency ==
    [file |-> "example.py", cellvars |-> {}, name |-> "control_dependency", parent |-> -1,
     blocks |-> <<
        << Ins("LOAD_CONST", "1", -1, 2), Mem("STORE_FAST", "foo", 2, 1, FALSE),
           Ins("LOAD_CONST", "3", -1, 3), Mem("STORE_FAST", "result", 3, 3, FALSE),
           Mem("LOAD_FAST", "foo", 5, 1, FALSE), Ins("LOAD_CONST", "1", -1, 5),
           Ins("COMPARE_OP", "==", -1, 5), Jmp("POP_JUMP_IF_FALSE", 2, 5, "any") >>,
        << Ins("LOAD_CONST", "1", -1, 6), Mem("STORE_FAST", "result", 6, 1, FALSE) >>,
        << Mem("LOAD_FAST", "result", 8, 1, FALSE), Ins("RETURN_VALUE", "", -1, 8) >> >>]

\* example.py: r = 0; for i in range(2): r = r + i; return r
Co_loop ==
    [file |-> "example.py", cellvars |-> {}, name |-> "loop", parent |-> -1,
     blocks |-> <<
        << Ins("LOAD_CONST", "0", -1, 12), Mem("STORE_FAST", "r", 12, 1, FALSE),
           Mem("LOAD_GLOBAL", "range", 13, 5, TRUE), Ins("LOAD_CONST", "2", -1, 13),
           Call("CALL_FUNCTION", 1, 13, -1), Ins("GET_ITER", "", -1, 13) >>,
        << Jmp("FOR_ITER", 3, 13, "any") >>,
        << Mem("STORE_FAST", "i", 13, 1, FALSE), Mem("LOAD_FAST", "r", 14, 1, FALSE),
           Mem("LOAD_FAST", "i", 14, 1, FALSE), Ins("BINARY_ADD", "", -1, 14),
           Mem("STORE_FAST", "r", 14, 1, FALSE), Jmp("JUMP_ABSOLUTE", 1, 14, "jump") >>,
        << Mem("LOAD_FAST", "r", 15, 1, FALSE), Ins("RETURN_VALUE", "", -1, 15) >> >>]

\* example.py: def inc(x): return x + 1
Co_inc ==
    [file |-> "example.py", cellvars |-> {}, name |-> "inc", parent |-> -1,
     blocks |-> <<
        << Mem("LOAD_FAST", "x", 19, 1, FALSE), Ins("LOAD_CONST", "1", -1, 19),
           Ins("BINARY_ADD", "", -1, 19), Ins("RETURN_VALUE", "", -1, 19) >> >>]

\* example.py: a = 1; b = inc(a); return b
Co_call_inc ==
    [file |-> "example.py", cellvars |-> {}, name |-> "call_inc", parent |-> -1,
     blocks |-> <<
        << Ins("LOAD_CONST", "1", -1, 23), Mem("STORE_FAST", "a", 23, 1, FALSE),
           Mem("LOAD_GLOBAL", "inc", 24, 6, TRUE), Mem("LOAD_FAST", "a", 24, 1, FALSE),
           Call("CALL_FUNCTION", 1, 24, 2), Mem("STORE_FAST", "b", 24, 2, FALSE),
           Mem("LOAD_FAST", "b", 25, 2, FALSE), Ins("RETURN_VALUE", "", -1, 25) >> >>]

\* example.py: foo = 1; result = 3; if foo == 1: result = 1; s = f"{foo}"; return result
Co_format ==
    [file |-> "example.py", cellvars |-> {}, name |-> "format", parent |-> -1,
     blocks |-> <<
        << Ins("LOAD_CONST", "1", -1, 29), Mem("STORE_FAST", "foo", 29, 1, FALSE),
           Ins("LOAD_CONST", "3", -1, 30), Mem("STORE_FAST", "result", 30, 3, FALSE),
           Mem("LOAD_FAST", "foo", 31, 1, FALSE), Ins("LOAD_CONST", "1", -1, 31),
           Ins("COMPARE_OP", "==", -1, 31), Jmp("POP_JUMP_IF_FALSE", 2, 31, "any") >>,
        << Ins("LOAD_CONST", "1", -1, 32), Mem("STORE_FAST", "result", 32, 1, FALSE) >>,
        << Mem("LOAD_FAST", "foo", 33, 1, FALSE), Ins("FORMAT_VALUE", "", 0, 33),
           Mem("STORE_FAST", "s", 33, 4, FALSE), Mem("LOAD_FAST", "result", 34, 1, FALSE),
           Ins("RETURN_VALUE", "", -1, 34) >> >>]

\* example.py: async def enter(a): async with a: pass
Co_async_with ==
    [file |-> "example.py", cellvars |-> {}, name |-> "enter", parent |-> -1,
     blocks |-> <<
        << Mem("LOAD_FAST", "a", 38, 7, TRUE), Ins("BEFORE_ASYNC_WITH", "", -1, 38),
           Ins("GET_AWAITABLE", "", -1, 38), Ins("LOAD_CONST", "None", -1, 38),
           Call("YIELD_FROM", -1, 38, -1), Jmp("SETUP_ASYNC_WITH", 2, 38, "fall") >>,
        << Ins("POP_TOP", "", -1, 38), Ins("POP_BLOCK", "", -1, 39),
           Ins("BEGIN_FINALLY", "", -1, 39) >>,
        << Ins("WITH_CLEANUP_START", "", -1, 39), Ins("GET_AWAITABLE", "", -1, 39),
           Ins("LOAD_CONST", "None", -1, 39), Call("YIELD_FROM", -1, 39, -1),
           Ins("WITH_CLEANUP_FINISH", "", -1, 39), Ins("END_FINALLY", "", -1, 39),
           Ins("LOAD_CONST", "None", -1, 39), Ins("RETURN_VALUE", "", -1, 39) >> >>]

\* test_example.py: x = 1; self.assertEqual(x, 1); y = 2; self.assertTrue(y)
Co_test_two_assertions ==
    [file |-> "test_example.py", cellvars |-> {}, name |-> "test_two_assertions", parent |-> -1,
     blocks |-> <<
        << Ins("LOAD_CONST", "1", -1, 5), Mem("STORE_FAST", "x", 5, 1, FALSE),
           Mem("LOAD_FAST", "self", 6, 8, TRUE),
           Attr("LOAD_METHOD", "assertEqual", 6, 9, 10, TRUE),
           Mem("LOAD_FAST", "x", 6, 1, FALSE), Ins("LOAD_CONST", "1", -1, 6),
           Call("CALL_METHOD", 2, 6, -1), Ins("POP_TOP", "", -1, 6),
           Ins("LOAD_CONST", "2", -1, 7), Mem("STORE_FAST", "y", 7, 2, FALSE),
           Mem("LOAD_FAST", "self", 8, 8, TRUE),
           Attr("LOAD_METHOD", "assertTrue", 8, 9, 11, TRUE),
           Mem("LOAD_FAST", "y", 8, 2, FALSE), Call("CALL_METHOD", 1, 8, -1),
           Ins("POP_TOP", "", -1, 8), Ins("LOAD_CONST", "None", -1, 8),
           Ins("RETURN_VALUE", "", -1, 8) >> >>]

\* example.py: def check(a): if a: return 1; return 0   -- bool(a) raises ValueError
Co_check ==
    [file |-> "example.py", cellvars |-> {}, name |-> "check", parent |-> -1,
     blocks |-> <<
        << Mem("LOAD_FAST", "a", 43, 12, TRUE),
           [Jmp("POP_JUMP_IF_FALSE", 2, 43, "any") EXCEPT !.raises = TRUE] >>,
        << Ins("LOAD_CONST", "1", -1, 44), Ins("RETURN_VALUE", "", -1, 44) >>,
        << Ins("LOAD_CONST", "0", -1, 45), Ins("RETURN_VALUE", "", -1, 45) >> >>]

\* test_example.py: try: check(arr) except ValueError: pass; self.assertTrue(True)
Co_test_handled_error ==
    [file |-> "test_example.py", cellvars |-> {}, name |-> "test_handled_error", parent |-> -1,
     blocks |-> <<
        << Jmp("SETUP_FINALLY", 2, 12, "fall") >>,
        << Mem("LOAD_GLOBAL", "check", 13, 13, TRUE), Mem("LOAD_GLOBAL", "arr", 13, 12, TRUE),
           Call("CALL_FUNCTION", 1, 13, 7), Ins("POP_TOP", "", -1, 13),
           Ins("POP_BLOCK", "", -1, 13), Jmp("JUMP_FORWARD", 5, 13, "jump") >>,
        << Ins("DUP_TOP", "", -1, 14), Mem("LOAD_GLOBAL", "ValueError", 14, 14, TRUE),
           Ins("COMPARE_OP", "exception match", -1, 14),
           Jmp("POP_JUMP_IF_FALSE", 4, 14, "fall") >>,
        << Ins("POP_TOP", "", -1, 14), Ins("POP_TOP", "", -1, 14), Ins("POP_TOP", "", -1, 14),
           Ins("POP_EXCEPT", "", -1, 15), Jmp("JUMP_FORWARD", 5, 15, "jump") >>,
        << Ins("END_FINALLY", "", -1, 15) >>,
        << Mem("LOAD_FAST", "self", 16, 8, TRUE),
           Attr("LOAD_METHOD", "assertTrue", 16, 9, 11, TRUE),
           Ins("LOAD_CONST", "True", -1, 16), Call("CALL_METHOD", 1, 16, -1),
           Ins("POP_TOP", "", -1, 16), Ins("LOAD_CONST", "None", -1, 16),
           Ins("RETURN_VALUE", "", -1, 16) >> >>]

\* example.py: foo = 1; bar = 2; result = 3; if foo == bar: result = 1; return result
Co_control_dependency_2 ==
    [file |-> "example.py", cellvars |-> {}, name |-> "control_dependency_2", parent |-> -1,
     blocks |-> <<
        << Ins("LOAD_CONST", "1", -1, 49), Mem("STORE_FAST", "foo", 49, 1, FALSE),
           Ins("LOAD_CONST", "2", -1, 50), Mem("STORE_FAST", "bar", 50, 2, FALSE),
           Ins("LOAD_CONST", "3", -1, 51), Mem("STORE_FAST", "result", 51, 3, FALSE),
           Mem("LOAD_FAST", "foo", 53, 1, FALSE), Mem("LOAD_FAST", "bar", 53, 2, FALSE),
           Ins("COMPARE_OP", "==", -1, 53), Jmp("POP_JUMP_IF_FALSE", 2, 53, "jump") >>,
        << Ins("LOAD_CONST", "1", -1, 54), Mem("STORE_FAST", "result", 54, 1, FALSE) >>,
        << Mem("LOAD_FAST", "result", 56, 3, FALSE), Ins("RETURN_VALUE", "", -1, 56) >> >>]

\* example.py: def if_else(foo): result = 3; if foo: bar = 1; else: bar = 2; return result
Co_if_else ==
    [file |-> "example.py", cellvars |-> {}, name |-> "if_else", parent |-> -1,
     blocks |-> <<
        << Ins("LOAD_CONST", "3", -1, 60), Mem("STORE_FAST", "result", 60, 3, FALSE),
           Mem("LOAD_FAST", "foo", 61, 15, FALSE), Jmp("POP_JUMP_IF_FALSE", 2, 61, "any") >>,
        << Ins("LOAD_CONST", "1", -1, 62), Mem("STORE_FAST", "bar", 62, 1, FALSE),
           Jmp("JUMP_FORWARD", 3, 62, "jump") >>,
        << Ins("LOAD_CONST", "2", -1, 64), Mem("STORE_FAST", "bar", 64, 2, FALSE) >>,
        << Mem("LOAD_FAST", "result", 65, 3, FALSE), Ins("RETURN_VALUE", "", -1, 65) >> >>]

\* example.py: foo = 1; result = 1 + foo; return result
Co_data_dependency_3 ==
    [file |-> "example.py", cellvars |-> {}, name |-> "data_dependency_3", parent |-> -1,
     blocks |-> <<
        << Ins("LOAD_CONST", "1", -1, 69), Mem("STORE_FAST", "foo", 69, 1, FALSE),
           Ins("LOAD_CONST", "1", -1, 70), Mem("LOAD_FAST", "foo", 70, 1, FALSE),
           Ins("BINARY_ADD", "", -1, 70), Mem("STORE_FAST", "result", 70, 2, FALSE),
           Mem("LOAD_FAST", "result", 71, 2, FALSE), Ins("RETURN_VALUE", "", -1, 71) >> >>]

\* example.py: result = 1; foo = 2; return result
Co_data_dependency_2 ==
    [file |-> "example.py", cellvars |-> {}, name |-> "data_dependency_2", parent |-> -1,
     blocks |-> <<
        << Ins("LOAD_CONST", "1", -1, 75), Mem("STORE_FAST", "result", 75, 1, FALSE),
           Ins("LOAD_CONST", "2", -1, 76), Mem("STORE_FAST", "foo", 76, 2, FALSE),
           Mem("LOAD_FAST", "result", 77, 1, FALSE), Ins("RETURN_VALUE", "", -1, 77) >> >>]

\* example.py: def set_total(): global total; inc(0); total = 1
Co_set_total ==
    [file |-> "example.py", cellvars |-> {}, name |-> "set_total", parent |-> -1,
     blocks |-> <<
        << Mem("LOAD_GLOBAL", "inc", 82, 6, TRUE), Ins("LOAD_CONST", "0", -1, 82),
           Call("CALL_FUNCTION", 1, 82, 2), Ins("POP_TOP", "", -1, 82),
           Ins("LOAD_CONST", "1", -1, 83), Mem("STORE_GLOBAL", "total", 83, 1, FALSE),
           Ins("LOAD_CONST", "None", -1, 83), Ins("RETURN_VALUE", "", -1, 83) >> >>]

\* example.py: set_total(); return total
Co_call_set_total ==
    [file |-> "example.py", cellvars |-> {}, name |-> "call_set_total", parent |-> -1,
     blocks |-> <<
        << Mem("LOAD_GLOBAL", "set_total", 87, 16, TRUE), Call("CALL_FUNCTION", 0, 87, 13),
           Ins("POP_TOP", "", -1, 87), Mem("LOAD_GLOBAL", "total", 88, 1, FALSE),
           Ins("RETURN_VALUE", "", -1, 88) >> >>]

\* example.py: lst = [('foo', '3'), ('bar', '1'), ('foobar', '2')]; lst.sort();
\* result = lst; return result
Co_mod_untraced_object ==
    [file |-> "example.py", cellvars |-> {}, name |-> "mod_untraced_object", parent |-> -1,
     blocks |-> <<
        << Ins("LOAD_CONST", "('foo', '3')", -1, 92), Ins("LOAD_CONST", "('bar', '1')", -1, 92),
           Ins("LOAD_CONST", "('foobar', '2')", -1, 92), Ins("BUILD_LIST", "", 3, 92),
           Mem("STORE_FAST", "lst", 92, 17, TRUE), Mem("LOAD_FAST", "lst", 93, 17, TRUE),
           Attr("LOAD_METHOD", "sort", 93, 17, 18, FALSE), Call("CALL_METHOD", 0, 93, -1),
           Ins("POP_TOP", "", -1, 93), Mem("LOAD_FAST", "lst", 95, 17, TRUE),
           Mem("STORE_FAST", "result", 95, 17, TRUE), Mem("LOAD_FAST", "result", 96, 17, TRUE),
           Ins("RETURN_VALUE", "", -1, 96) >> >>]

\* example.py: foo = 1; bar = 2; if foo == bar: result = 1; elif foo == 1: result = 2;
\* else: result = 3; return result   -- with the values of foo and bar varied
Co_control_dependency_3 ==
    [file |-> "example.py", cellvars |-> {}, name |-> "control_dependency_3", parent |-> -1,
     blocks |-> <<
        << Ins("LOAD_CONST", "1", -1, 100), Mem("STORE_FAST", "foo", 100, 1, FALSE),
           Ins("LOAD_CONST", "2", -1, 101), Mem("STORE_FAST", "bar", 101, 2, FALSE),
           Mem("LOAD_FAST", "foo", 103, 1, FALSE), Mem("LOAD_FAST", "bar", 103, 2, FALSE),
           Ins("COMPARE_OP", "==", -1, 103), Jmp("POP_JUMP_IF_FALSE", 2, 103, "any") >>,
        << Ins("LOAD_CONST", "1", -1, 104), Mem("STORE_FAST", "result", 104, 1, FALSE),
           Jmp("JUMP_FORWARD", 5, 104, "jump") >>,
        << Mem("LOAD_FAST", "foo", 105, 1, FALSE), Ins("LOAD_CONST", "1", -1, 105),
           Ins("COMPARE_OP", "==", -1, 105), Jmp("POP_JUMP_IF_FALSE", 4, 105, "any") >>,
        << Ins("LOAD_CONST", "2", -1, 106), Mem("STORE_FAST", "result", 106, 2, FALSE),
           Jmp("JUMP_FORWARD", 5, 106, "jump") >>,
        << Ins("LOAD_CONST", "3", -1, 108), Mem("STORE_FAST", "result", 108, 3, FALSE) >>,
        << Mem("LOAD_FAST", "result", 110, 3, FALSE), Ins("RETURN_VALUE", "", -1, 110) >> >>]

\* example.py: def recurse(): recurse()   -- runs into the recursion limit
Co_recurse ==
    [file |-> "example.py", cellvars |-> {}, name |-> "recurse", parent |-> -1,
     blocks |-> <<
        << Mem("LOAD_GLOBAL", "recurse", 114, 19, TRUE), Call("CALL_FUNCTION", 0, 114, 17),
           Ins("POP_TOP", "", -1, 114), Ins("LOAD_CONST", "None", -1, 114),
           Ins("RETURN_VALUE", "", -1, 114) >> >>]

\* test_example.py, the code of the module: arr = [1]
Co_test_example ==
    [file |-> "test_example.py", cellvars |-> {}, name |-> "<module>", parent |-> -1,
     blocks |-> <<
        << Ins("LOAD_CONST", "1", -1, 1), Ins("BUILD_LIST", "", 1, 1),
           Mem("STORE_NAME", "arr", 1, 12, TRUE), Ins("LOAD_CONST", "None", -1, 1),
           Ins("RETURN_VALUE", "", -1, 1) >> >>]

\* test_example.py: for i in range(2): self.assertTrue(True)
Co_test_loop_assertions ==
    [file |-> "test_example.py", cellvars |-> {}, name |-> "test_loop_assertions", parent |-> -1,
     blocks |-> <<
        << Mem("LOAD_GLOBAL", "range", 23, 5, TRUE), Ins("LOAD_CONST", "2", -1, 23),
           Call("CALL_FUNCTION", 1, 23, -1), Ins("GET_ITER", "", -1, 23) >>,
        << Jmp("FOR_ITER", 3, 23, "any") >>,
        << Mem("STORE_FAST", "i", 23, 1, FALSE), Mem("LOAD_FAST", "self", 24, 8, TRUE),
           Attr("LOAD_METHOD", "assertTrue", 24, 9, 11, TRUE),
           Ins("LOAD_CONST", "True", -1, 24), Call("CALL_METHOD", 1, 24, -1),
           Ins("POP_TOP", "", -1, 24), Jmp("JUMP_ABSOLUTE", 1, 24, "jump") >>,
        << Ins("LOAD_CONST", "None", -1, 24), Ins("RETURN_VALUE", "", -1, 24) >> >>]

\* test_example.py: self.assertTrue(a or b)
Co_test_or_assertion ==
    [file |-> "test_example.py", cellvars |-> {}, name |-> "test_or_assertion", parent |-> -1,
     blocks |-> <<
        << Mem("LOAD_FAST", "self", 28, 8, TRUE),
           Attr("LOAD_METHOD", "assertTrue", 28, 9, 11, TRUE),
           Mem("LOAD_FAST", "a", 28, 1, FALSE), Jmp("JUMP_IF_TRUE_OR_POP", 2, 28, "any") >>,
        << Mem("LOAD_FAST", "b", 28, 1, FALSE) >>,
        << Call("CALL_METHOD", 1, 28, -1), Ins("POP_TOP", "", -1, 28),
           Ins("LOAD_CONST", "None", -1, 28), Ins("RETURN_VALUE", "", -1, 28) >> >>]

\* example.py: def nested_if(a, b): y = 0; if a: (if b: y = 2); x = 1;
\* return x + y   -- called with a true
Co_nested_if ==
    [file |-> "example.py", cellvars |-> {}, name |-> "nested_if", parent |-> -1,
     blocks |-> <<
        << Ins("LOAD_CONST", "0", -1, 120), Mem("STORE_FAST", "y", 120, 3, FALSE),
           Mem("LOAD_FAST", "a", 121, 15, FALSE), Jmp("POP_JUMP_IF_FALSE", 4, 121, "fall") >>,
        << Mem("LOAD_FAST", "b", 122, 14, FALSE), Jmp("POP_JUMP_IF_FALSE", 3, 122, "any") >>,
        << Ins("LOAD_CONST", "2", -1, 123), Mem("STORE_FAST", "y", 123, 2, FALSE) >>,
        << Ins("LOAD_CONST", "1", -1, 124), Mem("STORE_FAST", "x", 124, 1, FALSE) >>,
        << Mem("LOAD_FAST", "x", 125, 1, FALSE), Mem("LOAD_FAST", "y", 125, 2, FALSE),
           Ins("BINARY_ADD", "", -1, 125), Ins("RETURN_VALUE", "", -1, 125) >> >>]

\* example.py: b = [2]; a = [1]; b.sort(); return b   -- the list a at the
\* address 0x1, the list b at 0x12
Co_address_prefix ==
    [file |-> "example.py", cellvars |-> {}, name |-> "address_prefix", parent |-> -1,
     blocks |-> <<
        << Ins("LOAD_CONST", "2", -1, 130), Ins("BUILD_LIST", "", 1, 130),
           Mem("STORE_FAST", "b", 130, 18, TRUE), Ins("LOAD_CONST", "1", -1, 131),
           Ins("BUILD_LIST", "", 1, 131), Mem("STORE_FAST", "a", 131, 1, TRUE),
           Mem("LOAD_FAST", "b", 132, 18, TRUE), Attr("LOAD_METHOD", "sort", 132, 18, 20, FALSE),
           Call("CALL_METHOD", 0, 132, -1), Ins("POP_TOP", "", -1, 132),
           Mem("LOAD_FAST", "b", 133, 18, TRUE), Ins("RETURN_VALUE", "", -1, 133) >> >>]

\* example.py: ob = Foo(); ob.attr1 = 1; result = ob; return result   -- Foo is
\* not instrumented
Co_partial_cover ==
    [file |-> "example.py", cellvars |-> {}, name |-> "partial_cover", parent |-> -1,
     blocks |-> <<
        << Mem("LOAD_GLOBAL", "Foo", 140, 36, TRUE), Call("CALL_FUNCTION", 0, 140, -1),
           Mem("STORE_FAST", "ob", 140, 35, TRUE), Ins("LOAD_CONST", "1", -1, 141),
           Mem("LOAD_FAST", "ob", 141, 35, TRUE), Attr("STORE_ATTR", "attr1", 141, 35, 1, FALSE),
           Mem("LOAD_FAST", "ob", 143, 35, TRUE), Mem("STORE_FAST", "result", 143, 35, TRUE),
           Mem("LOAD_FAST", "result", 144, 35, TRUE), Ins("RETURN_VALUE", "", -1, 144) >> >>]

\* example.py: a = 1; b = inc(a); s = f"{b}"; return s
Co_format_call ==
    [file |-> "example.py", cellvars |-> {}, name |-> "format_call", parent |-> -1,
     blocks |-> <<
        << Ins("LOAD_CONST", "1", -1, 150), Mem("STORE_FAST", "a", 150, 1, FALSE),
           Mem("LOAD_GLOBAL", "inc", 151, 6, TRUE), Mem("LOAD_FAST", "a", 151, 1, FALSE),
           Call("CALL_FUNCTION", 1, 151, 2), Mem("STORE_FAST", "b", 151, 2, FALSE),
           Mem("LOAD_FAST", "b", 152, 2, FALSE), Ins("FORMAT_VALUE", "", 0, 152),
           Mem("STORE_FAST", "s", 152, 4, FALSE), Mem("LOAD_FAST", "s", 153, 4, FALSE),
           Ins("RETURN_VALUE", "", -1, 153) >> >>]

\* example.py: foo = 1; bar = 0; try: result = 0 / 0; except ZeroDivisionError:
\* result = foo + bar; return result
Co_exception ==
    [file |-> "example.py", cellvars |-> {}, name |-> "exception", parent |-> -1,
     blocks |-> <<
        << Ins("LOAD_CONST", "1", -1, 160), Mem("STORE_FAST", "foo", 160, 1, FALSE),
           Ins("LOAD_CONST", "0", -1, 161), Mem("STORE_FAST", "bar", 161, 3, FALSE),
           Jmp("SETUP_FINALLY", 2, 163, "fall") >>,
        << Ins("LOAD_CONST", "0", -1, 164), Ins("LOAD_CONST", "0", -1, 164),
           [Ins("BINARY_TRUE_DIVIDE", "", -1, 164) EXCEPT !.raises = TRUE],
           Mem("STORE_FAST", "result", 164, 3, FALSE), Ins("POP_BLOCK", "", -1, 164),
           Jmp("JUMP_FORWARD", 5, 164, "jump") >>,
        << Ins("DUP_TOP", "", -1, 165), Mem("LOAD_GLOBAL", "ZeroDivisionError", 165, 37, TRUE),
           Ins("COMPARE_OP", "exception match", -1, 165),
           Jmp("POP_JUMP_IF_FALSE", 4, 165, "fall") >>,
        << Ins("POP_TOP", "", -1, 165), Ins("POP_TOP", "", -1, 165), Ins("POP_TOP", "", -1, 165),
           Mem("LOAD_FAST", "foo", 166, 1, FALSE), Mem("LOAD_FAST", "bar", 166, 3, FALSE),
           Ins("BINARY_ADD", "", -1, 166), Mem("STORE_FAST", "result", 166, 1, FALSE),
           Ins("POP_EXCEPT", "", -1, 166), Jmp("JUMP_FORWARD", 5, 166, "jump") >>,
        << Ins("END_FINALLY", "", -1, 166) >>,
        << Mem("LOAD_FAST", "result", 168, 1, FALSE), Ins("RETURN_VALUE", "", -1, 168) >> >>]

\* import_star_main.py: from import_star_def import *; result = star_imported
Co_import_star_main ==
    [file |-> "import_star_main.py", cellvars |-> {}, name |-> "<module>", parent |-> -1,
     blocks |-> <<
        << Ins("LOAD_CONST", "0", -1, 170), Ins("LOAD_CONST", "('*',)", -1, 170),
           [Mem("IMPORT_NAME", "import_star_def", 170, 38, TRUE) EXCEPT !.callee = 27],
           Ins("IMPORT_STAR", "", -1, 170),
           Mem("LOAD_NAME", "star_imported", 171, 39, FALSE),
           Mem("STORE_NAME", "result", 171, 39, FALSE),
           Ins("LOAD_CONST", "None", -1, 171), Ins("RETURN_VALUE", "", -1, 171) >> >>]

\* import_star_def.py: star_imported = "test"
Co_import_star_def ==
    [file |-> "import_star_def.py", cellvars |-> {}, name |-> "<module>", parent |-> -1,
     blocks |-> <<
        << Ins("LOAD_CONST", "test", -1, 175), Mem("STORE_NAME", "star_imported", 175, 39, FALSE),
           Ins("LOAD_CONST", "None", -1, 175), Ins("RETURN_VALUE", "", -1, 175) >> >>]

\* equal_variable_names_main.py: duplicate_var = "foo_dup";
\* import equal_variable_names_def; test = duplicate_var
Co_equal_variable_names_main ==
    [file |-> "equal_variable_names_main.py", cellvars |-> {}, name |-> "<module>",
     parent |-> -1,
     blocks |-> <<
        << Ins("LOAD_CONST", "foo_dup", -1, 180),
           Mem("STORE_NAME", "duplicate_var", 180, 40, FALSE),
           Ins("LOAD_CONST", "0", -1, 181), Ins("LOAD_CONST", "None", -1, 181),
           [Mem("IMPORT_NAME", "equal_variable_names_def", 181, 41, TRUE)
               EXCEPT !.callee = 29],
           Mem("STORE_NAME", "tests", 181, 41, TRUE),
           Mem("LOAD_NAME", "duplicate_var", 182, 40, FALSE),
           Mem("STORE_NAME", "test", 182, 40, FALSE),
           Ins("LOAD_CONST", "None", -1, 182), Ins("RETURN_VALUE", "", -1, 182) >> >>]

\* equal_variable_names_def.py: duplicate_var = "bar_dup"
Co_equal_variable_names_def ==
    [file |-> "equal_variable_names_def.py", cellvars |-> {}, name |-> "<module>",
     parent |-> -1,
     blocks |-> <<
        << Ins("LOAD_CONST", "bar_dup", -1, 185),
           Mem("STORE_NAME", "duplicate_var", 185, 42, FALSE),
           Ins("LOAD_CONST", "None", -1, 185), Ins("RETURN_VALUE", "", -1, 185) >> >>]

\* example.py: try: a; undefined; (try: b; finally: pass); finally: return 0,
\* a and b being globals (LOAD_GLOBAL undefined raises NameError before its
\* tracer call, and the return in finally drops the exception)
Co_name_error ==
    [file |-> "example.py", cellvars |-> {}, name |-> "name_error", parent |-> -1,
     blocks |-> <<
        << Jmp("SETUP_FINALLY", 4, 190, "fall") >>,
        << Mem("LOAD_GLOBAL", "a", 191, 1, FALSE), Ins("POP_TOP", "", -1, 191),
           [Mem("LOAD_GLOBAL", "undefined", 192, 0, FALSE) EXCEPT !.raises = TRUE],
           Ins("POP_TOP", "", -1, 192), Jmp("SETUP_FINALLY", 3, 193, "fall") >>,
        << Mem("LOAD_GLOBAL", "b", 194, 1, FALSE), Ins("POP_TOP", "", -1, 194),
           Ins("POP_BLOCK", "", -1, 194), Ins("BEGIN_FINALLY", "", -1, 194) >>,
        << Ins("END_FINALLY", "", -1, 196), Ins("POP_BLOCK", "", -1, 196),
           Ins("BEGIN_FINALLY", "", -1, 196) >>,
        << Ins("POP_FINALLY", "", 0, 198), Ins("LOAD_CONST", "0", -1, 198),
           Ins("RETURN_VALUE", "", -1, 198) >> >>]

\* example.py: def bump(x): x = x + 1; return x
Co_bump ==
    [file |-> "example.py", cellvars |-> {}, name |-> "bump", parent |-> -1,
     blocks |-> <<
        << Mem("LOAD_FAST", "x", 200, 1, FALSE), Ins("LOAD_CONST", "1", -1, 200),
           Ins("BINARY_ADD", "", -1, 200), Mem("STORE_FAST", "x", 200, 2, FALSE),
           Mem("LOAD_FAST", "x", 201, 2, FALSE), Ins("RETURN_VALUE", "", -1, 201) >> >>]

\* example.py: bump(5); b = bump(1); return b
Co_call_twice ==
    [file |-> "example.py", cellvars |-> {}, name |-> "call_twice", parent |-> -1,
     blocks |-> <<
        << Mem("LOAD_GLOBAL", "bump", 205, 44, TRUE), Ins("LOAD_CONST", "5", -1, 205),
           Call("CALL_FUNCTION", 1, 205, 31), Ins("POP_TOP", "", -1, 205),
           Mem("LOAD_GLOBAL", "bump", 206, 44, TRUE), Ins("LOAD_CONST", "1", -1, 206),
           Call("CALL_FUNCTION", 1, 206, 31), Mem("STORE_FAST", "b", 206, 2, FALSE),
           Mem("LOAD_FAST", "b", 207, 2, FALSE), Ins("RETURN_VALUE", "", -1, 207) >> >>]

\* example.py: def noisy(x): if x: y = 1; return 2
Co_noisy ==
    [file |-> "example.py", cellvars |-> {}, name |-> "noisy", parent |-> -1,
     blocks |-> <<
        << Mem("LOAD_FAST", "x", 210, 1, FALSE), Jmp("POP_JUMP_IF_FALSE", 2, 210, "fall") >>,
        << Ins("LOAD_CONST", "1", -1, 211), Mem("STORE_FAST", "y", 211, 1, FALSE) >>,
        << Ins("LOAD_CONST", "2", -1, 212), Ins("RETURN_VALUE", "", -1, 212) >> >>]

\* example.py: r = 0; if a: r = noisy(1); return r, a being a global that is true
Co_call_noisy ==
    [file |-> "example.py", cellvars |-> {}, name |-> "call_noisy", parent |-> -1,
     blocks |-> <<
        << Ins("LOAD_CONST", "0", -1, 215), Mem("STORE_FAST", "r", 215, 3, FALSE),
           Mem("LOAD_GLOBAL", "a", 216, 1, FALSE), Jmp("POP_JUMP_IF_FALSE", 2, 216, "fall") >>,
        << Mem("LOAD_GLOBAL", "noisy", 217, 45, TRUE), Ins("LOAD_CONST", "1", -1, 217),
           Call("CALL_FUNCTION", 1, 217, 33), Mem("STORE_FAST", "r", 217, 2, FALSE) >>,
        << Mem("LOAD_FAST", "r", 218, 2, FALSE), Ins("RETURN_VALUE", "", -1, 218) >> >>]

\* example.py: def boom(): return 1 / 0
Co_boom ==
    [file |-> "example.py", cellvars |-> {}, name |-> "boom", parent |-> -1,
     blocks |-> <<
        << Ins("LOAD_CONST", "1", -1, 220), Ins("LOAD_CONST", "0", -1, 220),
           [Ins("BINARY_TRUE_DIVIDE", "", -1, 220) EXCEPT !.raises = TRUE],
           Ins("RETURN_VALUE", "", -1, 220) >> >>]

\* example.py: try: boom(); except ZeroDivisionError: r = 2; return r
Co_call_boom ==
    [file |-> "example.py", cellvars |-> {}, name |-> "call_boom", parent |-> -1,
     blocks |-> <<
        << Jmp("SETUP_FINALLY", 2, 223, "fall") >>,
        << Mem("LOAD_GLOBAL", "boom", 224, 46, TRUE), Call("CALL_FUNCTION", 0, 224, 35),
           Ins("POP_TOP", "", -1, 224), Ins("POP_BLOCK", "", -1, 224),
           Jmp("JUMP_FORWARD", 5, 224, "jump") >>,
        << Ins("DUP_TOP", "", -1, 225), Mem("LOAD_GLOBAL", "ZeroDivisionError", 225, 37, TRUE),
           Ins("COMPARE_OP", "exception match", -1, 225),
           Jmp("POP_JUMP_IF_FALSE", 4, 225, "fall") >>,
        << Ins("POP_TOP", "", -1, 225), Ins("POP_TOP", "", -1, 225), Ins("POP_TOP", "", -1, 225),
           Ins("LOAD_CONST", "2", -1, 226), Mem("STORE_FAST", "r", 226, 2, FALSE),
           Ins("POP_EXCEPT", "", -1, 226), Jmp("JUMP_FORWARD", 5, 226, "jump") >>,
        << Ins("END_FINALLY", "", -1, 226) >>,
        << Mem("LOAD_FAST", "r", 227, 2, FALSE), Ins("RETURN_VALUE", "", -1, 227) >> >>]

\* example.py: t = format_call(); return t
Co_call_format_call ==
    [file |-> "example.py", cellvars |-> {}, name |-> "call_format_call", parent |-> -1,
     blocks |-> <<
        << Mem("LOAD_GLOBAL", "format_call", 230, 47, TRUE),
           Call("CALL_FUNCTION", 0, 230, 24), Mem("STORE_FAST", "t", 230, 48, FALSE),
           Mem("LOAD_FAST", "t", 231, 48, FALSE), Ins("RETURN_VALUE", "", -1, 231) >> >>]

\* the code objects the instrumentation registers, in registration order
InstrumentedCode ==
    << Co_control_dependency, Co_loop, Co_inc, Co_call_inc, Co_format, Co_async_with,
       Co_test_two_assertions, Co_check, Co_test_handled_error, Co_control_dependency_2,
       Co_if_else, Co_data_dependency_3, Co_data_dependency_2, Co_set_total,
       Co_call_set_total, Co_mod_untraced_object, Co_control_dependency_3, Co_recurse,
       Co_test_example, Co_test_loop_assertions, Co_test_or_assertion, Co_nested_if,
       Co_address_prefix, Co_partial_cover, Co_format_call,
       Co_exception, Co_import_star_main, Co_import_star_def,
       Co_equal_variable_names_main, Co_equal_variable_names_def, Co_name_error,
       Co_bump, Co_call_twice, Co_noisy, Co_call_noisy,
       Co_boom, Co_call_boom, Co_call_format_call >>

(***************************************************************************)
(* State.                                                                  *)
(***************************************************************************)
VARIABLES
    existing_code_objects,
                        \* KnownData.existing_code_objects: the metadata of the
                        \* instrumented code objects, ids dense from 0
    _module_traces,     \* TestExecutor._module_traces: the events traced while
                        \* the loader imported the module of the tests
    alarm,              \* the timer of signal.alarm: "off", "armed", or
                        \* "expired" once timeout_handler has been called
    mode,               \* "api": slice() is called on a function's trace;
                        \* "suite": TestExecutor runs the test suite
    pc,                 \* what the run is doing
    entry,              \* the code object being run
    tests_run,          \* TestExecutor._num_executed_testcases
    result,             \* TestListener._executed_tests of the current test
    frames,             \* the interpreter's call stack
    iters,              \* loop iterations entered in this run
    trace,              \* ExecutionTrace.executed_instructions
    known,              \* ExecutionTracer._known_object_addresses
    assertions,         \* ExecutionTrace.traced_assertions
    current_assertion,  \* ExecutionTracer._current_assertion
    ai,                 \* index of the assertion new_trace is at
    sl,                 \* the local variables of DynamicSlicer.slice
    trace_stack,        \* TraceStack.frame_stacks
    context,            \* the SlicingContext
    outcome,            \* how slice() ended: "" while running, "returned",
                        \* or the name of the exception raised
    sliced,             \* DynamicSlice.sliced_instructions once returned
    stats               \* the counters of TestExecutor and a log of what
                        \* became of each assertion

vars ==
    <<existing_code_objects, _module_traces, alarm, mode, pc, entry, tests_run, result, frames, iters, trace, known, assertions,
      current_assertion, ai, sl, trace_stack, context, outcome, sliced, stats>>

CodeIds == 0 .. (Len(existing_code_objects) - 1)

Code(co) == existing_code_objects[co + 1]

\* the functions the caller of slice() runs, and the test methods of the suite
ApiEntries == {0, 1, 3, 4, 5, 9, 10, 11, 12, 14, 15, 16, 17, 21, 22, 23, 24, 25, 26, 28,
               30, 32, 34, 36, 37}

TestEntries == {6, 8, 19, 20}

\* the modules the loader imports
ModuleEntries == {18}

(***************************************************************************)
(* Static views of a code object: blocks, offsets, the disassembly.        *)
(***************************************************************************)
NumBlocks(co) == Len(Code(co).blocks)

Block(co, bb) == Code(co).blocks[bb + 1]

RECURSIVE InstrsBefore(_, _)
InstrsBefore(co, bb) ==
    IF bb <= 0 THEN 0 ELSE InstrsBefore(co, bb - 1) + Len(Block(co, bb - 1))

\* ProgramGraphNode.offset: offset of the first instruction of the block
BlockOffset(co, bb) == 2 * InstrsBefore(co, bb)

InstrAt(co, bb, idx) == Block(co, bb)[idx + 1]

HasInstr(i) == i.op # ""

\* bytecode.Instr.__eq__ compares (lineno, name, arg)
InstrEq(a, b) ==
    a.line = b.line /\ a.op = b.op /\ a.arg = b.arg /\ a.n = b.n /\ a.tgt = b.tgt

\* dis.Instruction.is_jump_target of the instruction at an offset
is_jump_target(co, bb, offset) ==
    /\ offset = BlockOffset(co, bb)
    /\ \E b \in 0 .. (NumBlocks(co) - 1) :
          \E i \in 1 .. Len(Block(co, b)) : Block(co, b)[i].tgt = bb

is_traced_instruction(instr) == instr.op \in TRACED_INSTRUCTIONS

\* index of instr in the block, -1 for InstructionNotFoundException
locate_in_basic_block(instr, instr_offset, co, bb) ==
    IF bb < 0 \/ bb >= NumBlocks(co) THEN -1
    ELSE LET hits == {i \in 0 .. (Len(Block(co, bb)) - 1) :
                        /\ InstrEq(InstrAt(co, bb, i), instr)
                        /\ instr_offset = BlockOffset(co, bb) + 2 * i}
         IN IF hits = {} THEN -1 ELSE CHOOSE i \in hits : TRUE

\* the instruction with this opcode, line and offset, NoInstr for
\* InstructionNotFoundException
LocateByOpcode(op, line, offset, co, bb) ==
    IF co \notin CodeIds \/ bb < 0 \/ bb >= NumBlocks(co) THEN NoInstr
    ELSE LET hits == {i \in 0 .. (Len(Block(co, bb)) - 1) :
                        /\ InstrAt(co, bb, i).op = op
                        /\ InstrAt(co, bb, i).line = line
                        /\ offset = BlockOffset(co, bb) + 2 * i}
         IN IF hits = {} THEN NoInstr ELSE InstrAt(co, bb, CHOOSE i \in hits : TRUE)

_get_last_in_basic_block(co, bb) == InstrAt(co, bb, Len(Block(co, bb)) - 1)

(***************************************************************************)
(* UniqueInstruction.  id tells the objects apart (0 is the criterion, k   *)
(* the instruction created in the k-th iteration of the slicing loop); ev  *)
(* is the index of the trace event read for it, -1 when none was.          *)
(***************************************************************************)
UniqueInstruction(file, instr, co, bb, offset) ==
    [file |-> file, op |-> instr.op, arg |-> instr.arg, n |-> instr.n, tgt |-> instr.tgt,
     line |-> instr.line, co |-> co, bb |-> bb, offset |-> offset, in_slice |-> FALSE,
     id |-> -1, ev |-> -1]

NoUnique == UniqueInstruction("", NoInstr, -1, -1, -1)

\* Instr(import_instr.name, arg=import_instr.arg, lineno=import_instr.lineno)
AsInstr(u) == [Ins(u.op, u.arg, u.n, u.line) EXCEPT !.tgt = u.tgt]

(***************************************************************************)
(* ExecutionFlowBuilder.  A position is [file, instr, offset, co, bb, err] *)
(* and err names the exception raised while computing it.                  *)
(***************************************************************************)
Pos(file, instr, offset, co, bb) ==
    [file |-> file, instr |-> instr, offset |-> offset, co |-> co, bb |-> bb, err |-> ""]

_continue_at_last_traced(ev) ==
    LET found == LocateByOpcode(ev.op, ev.line, ev.offset, ev.co, ev.bb)
    IN [Pos(ev.file, found, ev.offset, ev.co, ev.bb) EXCEPT
            !.err = IF HasInstr(found) THEN "" ELSE "InstructionNotFoundException"]

_continue_at_last_basic_block(file, offset, co, bb) ==
    IF bb > 0 THEN Pos(file, _get_last_in_basic_block(co, bb - 1), offset - 2, co, bb - 1)
    ELSE Pos(file, NoInstr, offset, co, bb)

\* the predecessor inside the code object: the previous instruction of the
\* block, or the last one of the block before
PredecessorInCode(file, idx, offset, co, bb) ==
    IF idx > 0 THEN Pos(file, InstrAt(co, bb, idx - 1), offset - 2, co, bb)
    ELSE _continue_at_last_basic_block(file, offset, co, bb)

_continue_before_import(import_instr) ==
    LET idx == locate_in_basic_block(AsInstr(import_instr), import_instr.offset,
                                     import_instr.co, import_instr.bb)
    IN IF idx < 0
       THEN [Pos(import_instr.file, NoInstr, import_instr.offset, import_instr.co,
                 import_instr.bb) EXCEPT !.err = "InstructionNotFoundException"]
       ELSE PredecessorInCode(import_instr.file, idx, import_instr.offset,
                              import_instr.co, import_instr.bb)

LastInstrState(pos, jump, call, returned, exception, import_start, import_back_call) ==
    [file |-> pos.file, last_instr |-> pos.instr, code_object_id |-> pos.co,
     basic_block_id |-> pos.bb, offset |-> pos.offset, jump |-> jump, call |-> call,
     returned |-> returned, exception |-> exception, import_start |-> import_start,
     import_back_call |-> import_back_call, err |-> pos.err]

Raised(file, offset, co, bb, err) ==
    LastInstrState([Pos(file, NoInstr, offset, co, bb) EXCEPT !.err = err],
                   FALSE, FALSE, FALSE, FALSE, FALSE, NoUnique)

\* the events are numbered from 0, as list indices are
EventAt(tr, i) == tr[i + 1]

\* get_last_instruction once no event is left (trace_pos < 0)
LastWithoutTrace(file, idx, offset, co, bb, import_instr) ==
    LET p == PredecessorInCode(file, idx, offset, co, bb)
    IN IF ~HasInstr(p.instr) /\ HasInstr(import_instr)
       THEN LastInstrState(_continue_before_import(import_instr),
                           FALSE, FALSE, FALSE, FALSE, TRUE, NoUnique)
       ELSE LastInstrState(p, FALSE, FALSE, FALSE, FALSE, FALSE, NoUnique)

\* get_last_instruction, "Handle generators and exceptions" and the result
HandleGenerators(last_traced, unique_instr, jump, returned, call, import_start, p3) ==
    LET generator == ~call /\ ~returned /\ p3.instr.op \in {"YIELD_VALUE", "YIELD_FROM"}
        exception == /\ ~call /\ ~returned /\ ~generator
                     /\ is_traced_instruction(p3.instr)
                     /\ p3.instr.op # last_traced.op
        back_call == last_traced.op \in OP_RETURN /\ unique_instr.op = "IMPORT_NAME"
        p4 == IF generator \/ exception THEN _continue_at_last_traced(last_traced) ELSE p3
    IN IF p3.err # ""
       THEN Raised(unique_instr.file, unique_instr.offset, unique_instr.co,
                   unique_instr.bb, p3.err)
       ELSE IF p4.err # ""
       THEN Raised(unique_instr.file, unique_instr.offset, unique_instr.co,
                   unique_instr.bb, p4.err)
       ELSE LastInstrState(p4, jump, call, returned, exception, import_start,
                           IF back_call THEN unique_instr ELSE NoUnique)

\* a variant: call is set only where the flow goes on at the last traced event
HandleInvocation_CallAtCaller(last_traced, unique_instr, import_instr, jump, returned, p2) ==
    IF p2.err # ""
    THEN Raised(unique_instr.file, unique_instr.offset, unique_instr.co, unique_instr.bb,
                p2.err)
    ELSE IF HasInstr(p2.instr)
    THEN HandleGenerators(last_traced, unique_instr, jump, returned, FALSE, FALSE, p2)
    ELSE IF HasInstr(import_instr)
    THEN HandleGenerators(last_traced, unique_instr, jump, returned, FALSE, TRUE,
                          _continue_before_import(import_instr))
    ELSE HandleGenerators(last_traced, unique_instr, jump, returned, TRUE, FALSE,
                          _continue_at_last_traced(last_traced))

\* get_last_instruction, "Handle method invocation"
HandleInvocation(last_traced, unique_instr, import_instr, jump, returned, p2) ==
    IF p2.err # ""
    THEN Raised(unique_instr.file, unique_instr.offset, unique_instr.co, unique_instr.bb,
                p2.err)
    ELSE IF HasInstr(p2.instr)
    THEN HandleGenerators(last_traced, unique_instr, jump, returned, FALSE, FALSE, p2)
    ELSE IF HasInstr(import_instr)
    THEN HandleGenerators(last_traced, unique_instr, jump, returned, TRUE, TRUE,
                          _continue_before_import(import_instr))
    ELSE HandleGenerators(last_traced, unique_instr, jump, returned, TRUE, FALSE,
                          _continue_at_last_traced(last_traced))

\* a variant: a return is followed only from a predecessor in the code object
HandleReturn_FromPredecessor(last_traced, unique_instr, import_instr, jump, p1) ==
    LET returned ==
            /\ last_traced.op \in OP_RETURN
            /\ \/ unique_instr.op = "IMPORT_NAME"
               \/ p1.instr.op \in OP_CALL
               \/ is_traced_instruction(p1.instr) /\ p1.instr.op # last_traced.op
    IN IF p1.err # ""
       THEN Raised(unique_instr.file, unique_instr.offset, unique_instr.co,
                   unique_instr.bb, p1.err)
       ELSE HandleInvocation(last_traced, unique_instr, import_instr, jump, returned,
                             IF returned THEN _continue_at_last_traced(last_traced)
                             ELSE p1)

\* get_last_instruction, "Handle return instruction"
HandleReturn(last_traced, unique_instr, import_instr, jump, p1) ==
    LET returned ==
            /\ last_traced.op \in OP_RETURN
            /\ \/ unique_instr.op = "IMPORT_NAME"
               \/ ~HasInstr(p1.instr)
               \/ p1.instr.op \in OP_CALL
               \/ is_traced_instruction(p1.instr) /\ p1.instr.op # last_traced.op
    IN IF p1.err # ""
       THEN Raised(unique_instr.file, unique_instr.offset, unique_instr.co,
                   unique_instr.bb, p1.err)
       ELSE HandleInvocation(last_traced, unique_instr, import_instr, jump, returned,
                             IF returned THEN _continue_at_last_traced(last_traced)
                             ELSE p1)

\* a variant: a jump target is always reached from the block before it
LastWithTrace_FallThrough(last_traced, file, instr, idx, offset, co, bb, import_instr) ==
    HandleReturn(last_traced, UniqueInstruction(file, instr, co, bb, offset),
                 import_instr, FALSE, PredecessorInCode(file, idx, offset, co, bb))

\* get_last_instruction with the last traced event at hand, "Determine last
\* instruction"
LastWithTrace(last_traced, file, instr, idx, offset, co, bb, import_instr) ==
    LET jump == /\ idx = 0
                /\ is_jump_target(co, bb, offset)
                /\ last_traced.kind = "jump"
                /\ last_traced.n = bb
    IN IF jump /\ co # last_traced.co
       THEN Raised(file, offset, co, bb, "AssertionError")
       ELSE HandleReturn(last_traced, UniqueInstruction(file, instr, co, bb, offset),
                         import_instr, jump,
                         IF jump THEN _continue_at_last_traced(last_traced)
                         ELSE PredecessorInCode(file, idx, offset, co, bb))

get_last_instruction(tr, file, instr, trace_pos, offset, co, bb, import_instr) ==
    LET idx == locate_in_basic_block(instr, offset, co, bb)
    IN IF idx < 0 THEN Raised(file, offset, co, bb, "InstructionNotFoundException")
       ELSE IF trace_pos < 0
            THEN LastWithoutTrace(file, idx, offset, co, bb, import_instr)
       ELSE IF trace_pos >= Len(tr) THEN Raised(file, offset, co, bb, "IndexError")
       ELSE LastWithTrace(EventAt(tr, trace_pos), file, instr, idx, offset, co, bb,
                          import_instr)

(***************************************************************************)
(* TraceStack.  A frame is [co, nblocks, stack, attribute_uses,            *)
(* import_name_instr]; stack is the last block stack of the frame, the     *)
(* only one the slicer touches, its top at the end.                        *)
(***************************************************************************)
DEFAULT_STACK_HEIGHT == 40

DEFAULT_FRAME_HEIGHT == 40

FrameStack(co, nblocks) ==
    [co |-> co, nblocks |-> nblocks, stack |-> <<>>, attribute_uses |-> {},
     import_name_instr |-> NoUnique]

_prepare_stack == [i \in 1 .. DEFAULT_STACK_HEIGHT |-> FrameStack(-1, DEFAULT_FRAME_HEIGHT)]

push_stack(fs, co) == Append(fs, FrameStack(co, 1))

push_artificial_stack(fs) == push_stack(fs, -1)

pop_stack(fs) == SubSeq(fs, 1, Len(fs) - 1)

\* the assertion of pop_stack on the frame it pops
PopStackAssertion(fs) == fs[Len(fs)].co # -1 => fs[Len(fs)].nblocks = 1

Top(fs) == fs[Len(fs)]

SetTop(fs, frame) == [fs EXCEPT ![Len(fs)] = frame]

StackEntry(u, in_slice) == [op |-> u.op, in_slice |-> in_slice, id |-> u.id]

Min(a, b) == IF a < b THEN a ELSE b

\* a variant: the entries are looked at and left on the block stack
update_push_operations_Peek(fs, num_pushes, returned) ==
    LET stack == Top(fs).stack
        k == Min(num_pushes, Len(stack))
        popped == {Len(stack) - j + 1 : j \in 1 .. k}
    IN [fs |-> fs,
        imp_dependency |-> \E q \in popped : stack[q].in_slice,
        include_use |-> TRUE]

\* [fs, imp_dependency, include_use]
update_push_operations(fs, num_pushes, returned) ==
    LET stack == Top(fs).stack
        k == Min(num_pushes, Len(stack))
        popped == {Len(stack) - j + 1 : j \in 1 .. k}
        prev == fs[Len(fs) - 1].stack
        from_return == returned /\ Len(prev) > 0 /\ prev[Len(prev)].in_slice
        hides_use(q) ==
            \/ /\ stack[q].op \in {"STORE_ATTR", "STORE_SUBSCR"}
               /\ q > 1
               /\ stack[q - 1].op = stack[q].op
            \/ stack[q].op \in {"LOAD_ATTR", "DELETE_ATTR", "IMPORT_FROM"}
    IN [fs |-> SetTop(fs, [Top(fs) EXCEPT !.stack = SubSeq(stack, 1, Len(stack) - k)]),
        imp_dependency |-> from_return \/ \E q \in popped : stack[q].in_slice,
        include_use |-> ~ \E q \in popped : stack[q].in_slice /\ hides_use(q)]

update_pop_operations(fs, num_pops, unique_instr, in_slice) ==
    SetTop(fs, [Top(fs) EXCEPT
        !.stack = @ \o [i \in 1 .. num_pops |-> StackEntry(unique_instr, in_slice)]])

set_attribute_uses(fs, attribute_uses) ==
    SetTop(fs, [Top(fs) EXCEPT !.attribute_uses = attribute_uses])

get_attribute_uses(fs) == Top(fs).attribute_uses

get_import_frame(fs) == Top(fs).import_name_instr

set_import_frame(fs, import_name_instr) ==
    SetTop(fs, [Top(fs) EXCEPT !.import_name_instr = import_name_instr])

(***************************************************************************)
(* Trace events (ExecutedInstruction and its subclasses).  kind is "gen",  *)
(* "mem", "attr", "jump", "call" or "ret"; n is the argument of a jump     *)
(* (the index of the target block) or of a call; oc is object_creation.    *)
(* An address stands for its hex() string.                                 *)
(***************************************************************************)
Event(kind, file, co, bb, instr, offset) ==
    [kind |-> kind, file |-> file, co |-> co, bb |-> bb, op |-> instr.op,
     arg |-> instr.arg, n |-> -1, line |-> instr.line, offset |-> offset,
     addr |-> 0, src |-> 0, mut |-> FALSE, oc |-> FALSE]

NoEvent == Event("", "", -1, -1, NoInstr, -1)

(***************************************************************************)
(* SlicingContext and the dependence checks of DynamicSlicer.              *)
(***************************************************************************)
SlicingContext ==
    [DS |-> <<>>, S_C |-> {}, D_local |-> {}, D_global |-> {}, D_nonlocal |-> {},
     D_addresses |-> {}, D_attributes |-> {}, attribute_variables |-> {}]

\* str.startswith on the hex() strings of two addresses
RECURSIVE HexStartsWith(_, _)
HexStartsWith(s, a) == s = a \/ (s >= 16 /\ HexStartsWith(s \div 16, a))

\* ExecutedAttributeInstruction.combined_attr
CombinedAttr(ev) == [src |-> ev.src, name |-> ev.arg]

\* a variant: every definition covers a use
CheckVariableDef_Any(ctx, ev) == [ctx |-> ctx, cover |-> TRUE, err |-> ""]

\* a variant: a def covers the pending use and leaves it pending
CheckVariableDef_Keep(ctx, ev) ==
    LET local == <<ev.arg, ev.co>>
        global == <<ev.arg, ev.file>>
    IN [ctx |-> ctx,
        cover |-> local \in ctx.D_local \/ global \in ctx.D_global
                    \/ \E t \in ctx.D_nonlocal : t[1] = ev.arg /\ ev.co \in t[2],
        err |-> ""]

\* the definition an ExecutedMemoryInstruction makes: [ctx, cover, err]
CheckVariableDef(ctx, ev) ==
    LET local == <<ev.arg, ev.co>>
        global == <<ev.arg, ev.file>>
        nonlocal == {t \in ctx.D_nonlocal : t[1] = ev.arg /\ ev.co \in t[2]}
        as_local == [ctx |-> [ctx EXCEPT !.D_local = @ \ {local}],
                     cover |-> local \in ctx.D_local, err |-> ""]
        as_global == [ctx |-> [ctx EXCEPT !.D_global = @ \ {global}],
                      cover |-> global \in ctx.D_global, err |-> ""]
    IN CASE ev.op \in {"STORE_FAST", "DELETE_FAST"} -> as_local
         [] ev.op \in {"STORE_NAME", "DELETE_NAME"} ->
                IF Code(ev.co).name = "<module>" THEN as_global ELSE as_local
         [] ev.op \in {"STORE_GLOBAL", "DELETE_GLOBAL"} -> as_global
         [] ev.op \in {"STORE_DEREF", "DELETE_DEREF"} ->
                [ctx |-> [ctx EXCEPT !.D_nonlocal = @ \ nonlocal],
                 cover |-> nonlocal # {}, err |-> ""]
         [] ev.op = "IMPORT_NAME" ->
                IF ev.addr # 0 /\ ev.addr \in ctx.D_addresses /\ ev.oc
                THEN [ctx |-> [ctx EXCEPT !.D_addresses = @ \ {ev.addr}],
                      cover |-> TRUE, err |-> ""]
                ELSE [ctx |-> ctx, cover |-> FALSE, err |-> ""]
         [] OTHER -> [ctx |-> ctx, cover |-> FALSE, err |-> "ValueError"]

\* a variant: an attribute def is a dependence only through its own key
CheckAttributeDef_KeyOnly(ctx, ev) ==
    [dep |-> CombinedAttr(ev) \in ctx.D_attributes,
     ctx |-> [ctx EXCEPT !.D_attributes = @ \ {CombinedAttr(ev)}],
     uses |-> {}, err |-> ""]

\* the definition an ExecutedAttributeInstruction makes: complete cover of
\* its key, partial cover of its object
CheckAttributeDef(ctx, ev) ==
    [dep |-> CombinedAttr(ev) \in ctx.D_attributes \/ ev.src \in ctx.D_addresses,
     ctx |-> [ctx EXCEPT !.D_attributes = @ \ {CombinedAttr(ev)}],
     uses |-> {}, err |-> ""]

\* [dep, ctx, uses, err]: uses is attribute_creation_uses
check_explicit_data_dependency(ctx, unique_instr, ev) ==
    IF unique_instr.op \notin MEMORY_DEF_INSTRUCTIONS
    THEN [dep |-> FALSE, ctx |-> ctx, uses |-> {}, err |-> ""]
    ELSE IF ev.kind = "mem"
    THEN LET v == CheckVariableDef(ctx, ev)
             created == IF ev.addr # 0 /\ ev.oc
                        THEN {a \in v.ctx.D_attributes : HexStartsWith(a.src, ev.addr)}
                        ELSE {}
             by_address == ev.mut /\ ev.oc /\ ev.addr \in v.ctx.D_addresses
             by_variable == ev.arg \in v.ctx.attribute_variables
         IN [dep |-> v.cover \/ created # {} \/ by_address \/ by_variable,
             ctx |-> [v.ctx EXCEPT
                        !.D_attributes = @ \ created,
                        !.D_addresses = IF by_address THEN @ \ {ev.addr} ELSE @,
                        !.attribute_variables = @ \ {ev.arg}],
             uses |-> {a.name : a \in created},
             err |-> v.err]
    ELSE IF ev.kind = "attr" THEN CheckAttributeDef(ctx, ev)
    ELSE [dep |-> FALSE, ctx |-> ctx, uses |-> {}, err |-> ""]

\* the code objects from ev.co up to the one that owns the cell variable
RECURSIVE VariableScope(_, _)
VariableScope(co, name) ==
    IF name \in Code(co).cellvars \/ Code(co).parent \notin CodeIds THEN {co}
    ELSE {co} \cup VariableScope(Code(co).parent, name)

\* a variant: the variables an included instruction loads are not recorded
add_uses_None(ctx, ev) == [ctx |-> ctx, err |-> ""]

\* [ctx, err]
add_uses(ctx, ev) ==
    IF ev.kind = "mem"
    THEN LET c == IF ev.addr # 0 /\ ev.mut
                  THEN [ctx EXCEPT !.D_addresses = @ \cup {ev.addr}] ELSE ctx
             local == [c EXCEPT !.D_local = @ \cup {<<ev.arg, ev.co>>}]
             global == [c EXCEPT !.D_global = @ \cup {<<ev.arg, ev.file>>}]
         IN CASE ev.op = "LOAD_FAST" -> [ctx |-> local, err |-> ""]
              [] ev.op = "LOAD_NAME" ->
                     [ctx |-> IF Code(ev.co).name = "<module>" THEN global ELSE local,
                      err |-> ""]
              [] ev.op = "LOAD_GLOBAL" -> [ctx |-> global, err |-> ""]
              [] ev.op \in {"LOAD_CLOSURE", "LOAD_DEREF", "LOAD_CLASSDEREF"} ->
                     [ctx |-> [c EXCEPT !.D_nonlocal =
                                 @ \cup {<<ev.arg, VariableScope(ev.co, ev.arg)>>}],
                      err |-> ""]
              [] OTHER -> [ctx |-> c, err |-> "ValueError"]
    ELSE IF ev.kind = "attr"
    THEN [ctx |-> [ctx EXCEPT
                     !.D_addresses =
                         (@ \cup (IF ev.addr # 0 /\ ev.mut THEN {ev.addr} ELSE {}))
                            \cup (IF ev.addr = 0 \/ ev.op = "IMPORT_FROM"
                                  THEN {ev.src} ELSE {}),
                     !.D_attributes =
                         IF ev.addr # 0 THEN @ \cup {CombinedAttr(ev)} ELSE @],
          err |-> ""]
    ELSE [ctx |-> ctx, err |-> ""]

(***************************************************************************)
(* Control flow graph, post-dominators and control dependence graph of a   *)
(* code object.  The nodes are the block indices, an artificial entry      *)
(* node, an artificial exit node and the start node of the augmented       *)
(* graph.                                                                  *)
(***************************************************************************)
EntryNode == -1

StartNode == -2

ExitNode(code) == Len(code.blocks)

Nodes(code) == StartNode .. ExitNode(code)

IsArtificial(co, node) == node < 0 \/ node >= NumBlocks(co)

\* successors in the augmented control flow graph
Successors(code, node) ==
    IF node = StartNode THEN {EntryNode, ExitNode(code)}
    ELSE IF node = EntryNode THEN {0}
    ELSE IF node = ExitNode(code) THEN {}
    ELSE LET last == code.blocks[node + 1][Len(code.blocks[node + 1])]
         IN IF last.op \in {"RETURN_VALUE", "RAISE_VARARGS"} THEN {ExitNode(code)}
            ELSE IF last.op \in UNCOND_JUMP THEN {last.tgt}
            ELSE IF last.tgt >= 0 THEN {last.tgt, node + 1}
            ELSE {node + 1}

\* one round of the iteration for the post-dominator sets
PostDomStep(code, pd) ==
    [node \in Nodes(code) |->
        IF node = ExitNode(code) THEN {node}
        ELSE {node} \cup {d \in Nodes(code) : \A t \in Successors(code, node) : d \in pd[t]}]

RECURSIVE PostDomFix(_, _)
PostDomFix(code, pd) ==
    IF PostDomStep(code, pd) = pd THEN pd ELSE PostDomFix(code, PostDomStep(code, pd))

\* the nodes on the path from a node to the root of the post-dominator tree
PostDominators(code) == PostDomFix(code, [node \in Nodes(code) |-> Nodes(code)])

\* DominatorTree.get_transitive_successors: the nodes below a node in the
\* post-dominator tree
get_transitive_successors(pdt, node) == {n \in DOMAIN pdt : node \in pdt[n] /\ n # node}

\* DominatorTree.get_least_common_ancestor: the deepest node that is on the
\* paths of both nodes to the root, a node being on its own path
get_least_common_ancestor(pdt, first, second) ==
    CHOOSE a \in pdt[first] \cap pdt[second] :
        \A b \in pdt[first] \cap pdt[second] : Cardinality(pdt[b]) <= Cardinality(pdt[a])

\* a variant: no edge from a source to itself is added
SelfEdge_None(source, least_common_ancestor) == {}

\* lines 86-87: the edge of a source that is its own common ancestor
SelfEdge(source, least_common_ancestor) ==
    IF least_common_ancestor = source THEN {<<source, least_common_ancestor>>} ELSE {}

\* ControlDependenceGraph.compute: the edges <<source, dependent>>.  The
\* walk from the target of a matching edge up to the common ancestor passes
\* the nodes on the target's path to the root that are not on the
\* ancestor's.
ControlDependenceGraph(code) ==
    LET post_dominator_tree == PostDominators(code)
        edges == {e \in Nodes(code) \X Nodes(code) :
                    /\ e[2] \in Successors(code, e[1])
                    /\ e[1] \notin get_transitive_successors(post_dominator_tree, e[2])}
        marked(e) ==
            LET least_common_ancestor ==
                    get_least_common_ancestor(post_dominator_tree, e[1], e[2])
            IN {<<e[1], current>> :
                    current \in post_dominator_tree[e[2]]
                                    \ post_dominator_tree[least_common_ancestor]}
                  \cup SelfEdge(e[1], least_common_ancestor)
    IN UNION {marked(e) : e \in edges}

\* CodeObjectMetaData: the code object with its control dependence graph
CodeObjectMetaData(code) ==
    [file |-> code.file, cellvars |-> code.cellvars, name |-> code.name,
     parent |-> code.parent, blocks |-> code.blocks,
     original_cdg |-> ControlDependenceGraph(code)]

\* ProgramGraph.get_successors and get_predecessors on the CDG
CdgSuccessors(co, node) == {e[2] : e \in {d \in Code(co).original_cdg : d[1] = node}}

CdgPredecessors(co, node) == {e[1] : e \in {d \in Code(co).original_cdg : d[2] = node}}

\* the identity of a UniqueInstruction in a set: __hash__ and Instr.__eq__
SetKey(u) ==
    [op |-> u.op, co |-> u.co, bb |-> u.bb, offset |-> u.offset, line |-> u.line,
     arg |-> u.arg, n |-> u.n, tgt |-> u.tgt]

\* a variant: no instruction of S_C is found to be dependent
check_control_dependency_None(ctx, unique_instr, code_object_id) ==
    [dep |-> FALSE, ctx |-> ctx]

\* a variant: every conditional branch is found to be depended on
check_control_dependency_Always(ctx, unique_instr, code_object_id) ==
    [dep |-> unique_instr.op \in COND_BRANCH_INSTRUCTIONS, ctx |-> ctx]

\* [dep, ctx]
check_control_dependency(ctx, unique_instr, code_object_id) ==
    IF unique_instr.op \notin COND_BRANCH_INSTRUCTIONS THEN [dep |-> FALSE, ctx |-> ctx]
    ELSE LET successors == CdgSuccessors(code_object_id, unique_instr.bb)
             dependent == {k \in ctx.S_C : k.bb \in successors}
         IN [dep |-> dependent # {}, ctx |-> [ctx EXCEPT !.S_C = @ \ dependent]]

\* a variant: nothing is registered in S_C
add_control_dependencies_None(ctx, unique_instr, code_object_id) == ctx

add_control_dependencies(ctx, unique_instr, code_object_id) ==
    IF \E p \in CdgPredecessors(code_object_id, unique_instr.bb) :
            ~IsArtificial(code_object_id, p)
    THEN [ctx EXCEPT !.S_C = @ \cup {SetKey(unique_instr)}]
    ELSE ctx

\* bounds of the model
MaxIter == 2

MaxTests == 2

\* the frames the interpreter allows before it raises RecursionError
RecursionLimit == 41

(***************************************************************************)
(* The interpreter running instrumented code, and the ExecutionTracer.     *)
(***************************************************************************)
Frame(co, bb, idx) == [co |-> co, bb |-> bb, idx |-> idx, handlers |-> <<>>]

CurrentFrame == frames[Len(frames)]

CurrentInstr == InstrAt(CurrentFrame.co, CurrentFrame.bb, CurrentFrame.idx)

CurrentOffset == BlockOffset(CurrentFrame.co, CurrentFrame.bb) + 2 * CurrentFrame.idx

\* which track_* call the instrumentation puts around an instruction
EventKind(op) ==
    IF op \in OP_UNARY \cup OP_BINARY \cup OP_INPLACE \cup OP_COMPARE THEN "gen"
    ELSE IF op \in OP_LOCAL_ACCESS \cup OP_NAME_ACCESS \cup OP_GLOBAL_ACCESS
                    \cup OP_DEREF_ACCESS THEN "mem"
    ELSE IF op \in OP_ATTR_ACCESS \cup OP_SUBSCR_ACCESS THEN "attr"
    ELSE IF op \in OP_ABSOLUTE_JUMP \cup OP_RELATIVE_JUMP THEN "jump"
    ELSE IF op \in OP_CALL THEN "call"
    ELSE IF op \in OP_RETURN THEN "ret"
    ELSE IF op \in OP_IMPORT_NAME THEN "mem"
    ELSE ""

\* the tracer is called after the instruction for these, before it otherwise
TracedAfter(op) ==
    op \in {"LOAD_FAST", "STORE_FAST", "LOAD_NAME", "STORE_NAME", "LOAD_GLOBAL",
            "STORE_GLOBAL", "LOAD_DEREF", "STORE_DEREF", "LOAD_CLASSDEREF", "STORE_ATTR",
            "STORE_SUBSCR", "DELETE_SUBSCR", "IMPORT_NAME"}

\* the event track_generic, track_memory_access, track_attribute_access,
\* track_jump, track_call or track_return appends
TrackedEvent(instr, co, bb, offset) ==
    LET e == Event(EventKind(instr.op), Code(co).file, co, bb, instr, offset)
    IN CASE e.kind = "mem" ->
                [e EXCEPT !.addr = instr.addr, !.mut = instr.mut,
                          !.oc = instr.addr # 0 /\ instr.addr \notin known]
         [] e.kind = "attr" ->
                [e EXCEPT !.src = instr.src, !.addr = instr.addr, !.mut = instr.mut]
         [] e.kind = "jump" -> [e EXCEPT !.n = instr.tgt]
         [] e.kind = "call" -> [e EXCEPT !.n = instr.n]
         [] OTHER -> e

\* ExecutionTrace.start_assertion
TracedAssertion(co, bb, line, start) ==
    [co |-> co, bb |-> bb, line |-> line, trace_position_start |-> start,
     trace_position_end |-> -1, call_op |-> ""]

NoAssertion == TracedAssertion(-1, -1, -1, -1)

\* the three assertions of ExecutionTrace.end_assertion
EndAssertionOk(a) ==
    /\ a.call_op # ""
    /\ a.call_op \in {"CALL_METHOD", "CALL_FUNCTION_KW", "CALL_FUNCTION_EX"}
    /\ a.trace_position_end > 0

\* the tracer's part of an instruction: the event is appended, the known
\* addresses grow, assertions start at a TestCase assert method and are
\* marked at the calls of their line
Track(instr, co, bb, offset) ==
    LET e == TrackedEvent(instr, co, bb, offset)
        starts == e.kind = "attr" /\ instr.op \in MEMORY_USE_INSTRUCTIONS /\ instr.tc
        marks == /\ e.kind = "call"
                 /\ current_assertion # NoAssertion
                 /\ current_assertion.co = co
                 /\ current_assertion.bb = bb
                 /\ current_assertion.line = instr.line
    IN /\ trace' = Append(trace, e)
       /\ known' = IF e.kind = "mem" /\ instr.addr # 0 THEN known \cup {instr.addr}
                   ELSE known
       /\ assertions' = IF starts /\ current_assertion # NoAssertion
                        THEN Append(assertions, current_assertion) ELSE assertions
       /\ current_assertion' =
            IF starts THEN TracedAssertion(co, bb, instr.line, Len(trace) - 1)
            ELSE IF marks
            THEN [current_assertion EXCEPT !.trace_position_end = Len(trace),
                                           !.call_op = instr.op]
            ELSE current_assertion

NoTrack == UNCHANGED <<trace, known, assertions, current_assertion>>

\* IMPORT_NAME of an instrumented module: the code of the module runs inside
\* the instruction
Imports(instr) == instr.op \in OP_IMPORT_NAME /\ instr.callee >= 0

\* the module's RETURN_VALUE ends an IMPORT_NAME: track_return, and then the
\* track_memory_access that follows the IMPORT_NAME
TrackImported(instr, co, bb, offset, importing) ==
    LET name == InstrAt(importing.co, importing.bb, importing.idx)
        at == BlockOffset(importing.co, importing.bb) + 2 * importing.idx
    IN /\ trace' = trace \o << TrackedEvent(instr, co, bb, offset),
                                TrackedEvent(name, importing.co, importing.bb, at) >>
       /\ known' = IF name.addr # 0 THEN known \cup {name.addr} ELSE known
       /\ UNCHANGED <<assertions, current_assertion>>

\* the position after the current instruction when it does not jump
Advance(f) ==
    IF f.idx + 1 < Len(Block(f.co, f.bb)) THEN [f EXCEPT !.idx = f.idx + 1]
    ELSE [f EXCEPT !.bb = f.bb + 1, !.idx = 0]

JumpTo(f, bb) == [f EXCEPT !.bb = bb, !.idx = 0]

SetFrame(f) == [frames EXCEPT ![Len(frames)] = f]

\* track_attribute_access at an assert method while the assertion before it
\* has no call that end_assertion accepts: AssertionError in the test
TracerRaises(instr) ==
    /\ instr.tc
    /\ instr.op \in MEMORY_USE_INSTRUCTIONS
    /\ current_assertion # NoAssertion
    /\ ~EndAssertionOk(current_assertion)

Raises(instr) ==
    \/ instr.raises
    \/ instr.op = "RAISE_VARARGS"
    \/ instr.op \in OP_CALL /\ instr.callee >= 0 /\ Len(frames) >= RecursionLimit
    \/ TracerRaises(instr)

\* the frames after an exception: the innermost frame with a handler block
\* goes on at its handler, <<>> when nothing handles the exception
Unwind(fs) ==
    LET handling == {k \in 1 .. Len(fs) : fs[k].handlers # <<>>}
    IN IF handling = {} THEN <<>>
       ELSE LET k == CHOOSE m \in handling : \A j \in handling : j <= m
                h == fs[k].handlers
            IN [SubSeq(fs, 1, k) EXCEPT
                  ![k] = [JumpTo(fs[k], h[Len(h)]) EXCEPT
                            !.handlers = SubSeq(h, 1, Len(h) - 1)]]

\* one instruction of the running code that does not raise
ExecuteInstruction ==
    /\ pc = "running"
    /\ ~Raises(CurrentInstr)
    /\ LET f == CurrentFrame
           instr == CurrentInstr
       IN /\ IF Imports(instr) THEN NoTrack
             ELSE IF /\ instr.op = "RETURN_VALUE"
                     /\ Len(frames) > 1
                     /\ Imports(InstrAt(frames[Len(frames) - 1].co, frames[Len(frames) - 1].bb,
                                        frames[Len(frames) - 1].idx))
             THEN TrackImported(instr, f.co, f.bb, CurrentOffset, frames[Len(frames) - 1])
             ELSE IF EventKind(instr.op) # "" THEN Track(instr, f.co, f.bb, CurrentOffset)
             ELSE NoTrack
          /\ \E taken \in BOOLEAN :
                /\ instr.br = "jump" => taken
                /\ instr.br \in {"fall", ""} => ~taken
                /\ instr.op = "FOR_ITER" /\ iters >= MaxIter => taken
                /\ iters' = IF instr.op = "FOR_ITER" /\ ~taken THEN iters + 1 ELSE iters
                /\ IF instr.op = "RETURN_VALUE"
                   THEN /\ frames' = IF Len(frames) = 1 THEN <<>>
                                     ELSE [SubSeq(frames, 1, Len(frames) - 1) EXCEPT
                                             ![Len(frames) - 1] = Advance(@)]
                        /\ pc' = IF Len(frames) = 1 THEN "finished" ELSE "running"
                   ELSE /\ pc' = "running"
                        /\ frames' =
                             IF (instr.op \in OP_CALL /\ instr.callee >= 0) \/ Imports(instr)
                             THEN Append(frames, Frame(instr.callee, 0, 0))
                             ELSE IF instr.op \in {"SETUP_FINALLY", "SETUP_WITH",
                                                   "SETUP_ASYNC_WITH"}
                             THEN SetFrame([Advance(f) EXCEPT
                                              !.handlers = Append(@, instr.tgt)])
                             ELSE IF instr.op = "POP_BLOCK"
                             THEN SetFrame([Advance(f) EXCEPT
                                              !.handlers = SubSeq(@, 1, Len(@) - 1)])
                             ELSE IF taken THEN SetFrame(JumpTo(f, instr.tgt))
                             ELSE SetFrame(Advance(f))
    /\ UNCHANGED <<existing_code_objects, _module_traces, alarm, mode, entry, tests_run, result, ai, sl, trace_stack, context, outcome,
                   sliced, stats>>

\* an instruction that raises: the tracer has been called if it is called
\* before the instruction; the exception goes to the innermost handler or
\* ends the run (TestListener.addError, addFailure for an AssertionError)
RaiseException ==
    /\ pc = "running"
    /\ Raises(CurrentInstr)
    /\ IF EventKind(CurrentInstr.op) # "" /\ ~TracedAfter(CurrentInstr.op)
          /\ ~TracerRaises(CurrentInstr)
       THEN Track(CurrentInstr, CurrentFrame.co, CurrentFrame.bb, CurrentOffset)
       ELSE NoTrack
    /\ frames' = Unwind(frames)
    /\ pc' = IF Unwind(frames) = <<>> THEN "finished" ELSE "running"
    /\ result' = IF Unwind(frames) # <<>> THEN result
                 ELSE IF TracerRaises(CurrentInstr) THEN "FAILURE" ELSE "ERROR"
    /\ UNCHANGED <<existing_code_objects, _module_traces, alarm, mode, entry, tests_run, iters, ai, sl, trace_stack, context, outcome,
                   sliced, stats>>

\* a variant: the trace of the run before is kept
Run_KeepTrace(p) ==
    /\ entry' = p
    /\ frames' = <<Frame(p, 0, 0)>>
    /\ iters' = 0
    /\ trace' = trace
    /\ known' = {}
    /\ assertions' = <<>>
    /\ current_assertion' = NoAssertion
    /\ result' = "SUCCESS"
    /\ pc' = "running"

\* ExecutionTracer.reset and the start of the code object
Run(p) ==
    /\ entry' = p
    /\ frames' = <<Frame(p, 0, 0)>>
    /\ iters' = 0
    /\ trace' = <<>>
    /\ known' = {}
    /\ assertions' = <<>>
    /\ current_assertion' = NoAssertion
    /\ result' = "SUCCESS"
    /\ pc' = "running"

\* CustomTestLoader._get_module_from_name up to the import of the module:
\* the tracer is reset and the code of the module runs
_get_module_from_name(p) ==
    /\ mode = "suite"
    /\ pc = "idle"
    /\ tests_run = 0
    /\ _module_traces = <<>>
    /\ Run(p)
    /\ UNCHANGED <<existing_code_objects, _module_traces, alarm, mode, tests_run, ai, sl, trace_stack,
                   context, outcome, sliced, stats>>

\* CustomTestLoader._get_module_from_name after the import: the trace of
\* the module is kept
end_setup ==
    /\ mode = "suite"
    /\ pc = "finished"
    /\ entry \in ModuleEntries
    /\ _module_traces' = trace
    /\ pc' = "idle"
    /\ UNCHANGED <<existing_code_objects, alarm, mode, entry, tests_run, result, frames, iters, trace,
                   known, assertions, current_assertion, ai, sl, trace_stack, context, outcome,
                   sliced, stats>>

\* the caller of slice() runs an instrumented function (tests/util.py)
exec_function(p) ==
    /\ mode = "api"
    /\ pc = "idle"
    /\ tests_run = 0
    /\ tests_run' = 1
    /\ Run(p)
    /\ UNCHANGED <<existing_code_objects, _module_traces, alarm, mode, ai, sl, trace_stack, context, outcome, sliced, stats>>

(***************************************************************************)
(* DynamicSlicer.slice.  The local variables of the call are the record    *)
(* sl; trace_stack and context are its TraceStack and SlicingContext.      *)
(***************************************************************************)
SliceLocals(criterion, file, curr_instr, co, bb, offset, trace_position, pops, pushes) ==
    [slicing_criterion |-> criterion, file |-> file, curr_instr |-> curr_instr, code_object_id |-> co,
     basic_block_id |-> bb, offset |-> offset, trace_position |-> trace_position,
     stack_simulation |-> TRUE, pops |-> pops, pushes |-> pushes,
     code_object_dependent |-> FALSE, new_attribute_object_uses |-> {},
     import_back_call |-> NoUnique, steps |-> 0]

NoSlicer == [SliceLocals(NoUnique, "", NoInstr, -1, -1, -1, -1, 0, 0) EXCEPT !.steps = -1]

\* ExecutionTracer.reset when timeout_handler raises inside the try of
\* startTest: the first done of its three assignments have been made (3: all
\* of them, the exception is raised after reset has returned).  startTest
\* takes the two ends, 0 and 3: what 1 and 2 leave differs from them only in
\* fields of a test that is cancelled, and the next reset drops them
reset_interrupted(done) ==
    /\ current_assertion' = IF done >= 1 THEN NoAssertion ELSE current_assertion
    /\ known' = IF done >= 2 THEN {} ELSE known
    /\ trace' = IF done >= 3 THEN <<>> ELSE trace
    /\ assertions' = IF done >= 3 THEN <<>> ELSE assertions

\* TestListener.startTest: the timer is armed and the tracer reset; if the
\* timer expires before startTest has returned, the result of the test is
\* EXCEEDED_RUNTIME and the test runs all the same.  The slicer, its context
\* and its slice are locals of new_trace: nothing of them is left
startTest(p) ==
    /\ mode = "suite"
    /\ pc = "idle"
    /\ _module_traces # <<>>
    /\ tests_run < MaxTests
    /\ tests_run' = tests_run + 1
    /\ \/ /\ Run(p)
          /\ alarm' = "armed"
       \/ \E done \in {0, 3} :
             /\ reset_interrupted(done)
             /\ entry' = p
             /\ frames' = <<Frame(p, 0, 0)>>
             /\ iters' = 0
             /\ result' = "EXCEEDED_RUNTIME"
             /\ pc' = "running"
             /\ alarm' = "expired"
    /\ ai' = 0
    /\ sl' = NoSlicer
    /\ trace_stack' = <<>>
    /\ context' = SlicingContext
    /\ outcome' = ""
    /\ sliced' = <<>>
    /\ UNCHANGED <<existing_code_objects, _module_traces, mode, stats>>

\* timeout_handler while the test runs: TestTimeoutException is raised in the
\* code of the test, outside the try of startTest; unittest catches it with
\* every other exception of the test and reports it through addError
timeout_handler ==
    /\ mode = "suite"
    /\ pc = "running"
    /\ entry \in TestEntries
    /\ alarm = "armed"
    /\ alarm' = "expired"
    /\ frames' = <<>>
    /\ pc' = "finished"
    /\ result' = "ERROR"
    /\ UNCHANGED <<existing_code_objects, _module_traces, mode, entry, tests_run, iters, trace, known, assertions, current_assertion, ai, sl, trace_stack, context, outcome, sliced, stats>>

\* a variant: the context before the criterion is appended
InitialContext_Empty(criterion) == SlicingContext

\* the context after "context.DS.append(last_ex_instruction)"
InitialContext(criterion) == [SlicingContext EXCEPT !.DS = <<criterion>>]

\* zip of one list: the list of its 1-tuples
zip(seq) == [i \in 1 .. Len(seq) |-> <<seq[i]>>]

\* the positions, from 0, of the events find_trace_position counts: file,
\* opcode and offset are those of the criterion, the line is compared with
\* itself
MatchingPositions(tr, slice_instr) ==
    {i \in 0 .. Len(tr) - 1 :
        /\ tr[i + 1].file = slice_instr.file
        /\ tr[i + 1].op = slice_instr.op
        /\ tr[i + 1].line = tr[i + 1].line
        /\ tr[i + 1].offset = slice_instr.offset}

\* DynamicSlicer.find_trace_position: [err, position].  The head of its loop,
\* "for ex_instr, position in zip(trace.executed_instructions)", unpacks a
\* tuple of zip into two names: ValueError unless the tuple has two elements
find_trace_position(tr, slice_instr, occurrence) ==
    LET zipped == zip(tr)
        m == MatchingPositions(tr, slice_instr)
        hit == {i \in m : Cardinality({j \in m : j <= i}) = occurrence}
    IN IF zipped # <<>> /\ Len(zipped[1]) # 2 THEN [err |-> "ValueError", position |-> -1]
       ELSE IF hit = {} THEN [err |-> "ValueError", position |-> -1]
       ELSE [err |-> "", position |-> CHOOSE i \in hit : TRUE]

\* SlicingCriterion.occurrence as the callers of slice() set it: the default
\* in tests/util.py, -1 in _slicing_criterion_from_assertion
Occurrence == IF mode = "suite" THEN -1 ELSE 1

\* slice() up to its loop: [err, sl, trace_stack, context]
BeginSlice(criterion, trace_position) ==
    LET start == IF trace_position < 0
                 THEN find_trace_position(trace, criterion, Occurrence)
                 ELSE [err |-> "", position |-> trace_position]
        curr_instr == LocateByOpcode(criterion.op, criterion.line, criterion.offset,
                                     criterion.co, criterion.bb)
        se == stack_effect(criterion.op, criterion.n, FALSE)
        pushed == update_push_operations(_prepare_stack, se.pushes, FALSE).fs
        err == IF start.err # "" THEN start.err
               ELSE IF ~HasInstr(curr_instr) THEN "InstructionNotFoundException"
               ELSE IF se.err = "uncertain" THEN "UncertainStackEffectException"
               ELSE IF se.err = "value" THEN "ValueError"
               ELSE ""
    IN IF err # ""
       THEN [err |-> err, sl |-> NoSlicer, trace_stack |-> <<>>,
             context |-> SlicingContext]
       ELSE [err |-> "",
             sl |-> SliceLocals(criterion, criterion.file, curr_instr, criterion.co, criterion.bb,
                                criterion.offset, start.position, se.pops, se.pushes),
             trace_stack |-> update_pop_operations(pushed, se.pops, criterion, TRUE),
             context |-> add_control_dependencies(InitialContext(criterion), criterion,
                                                  criterion.co)]

\* a variant: the place one after the index
PyIndex_Next(tr, i) == IF i + 1 < Len(tr) THEN i + 2 ELSE 0

\* list indexing with a possibly negative index: the 1-based place, 0 for an
\* IndexError
PyIndex(tr, i) ==
    IF i >= 0 THEN (IF i < Len(tr) THEN i + 1 ELSE 0)
    ELSE (IF Len(tr) + i >= 0 THEN Len(tr) + i + 1 ELSE 0)

\* a variant: the list as it is
reversed_Not(seq) == seq

RECURSIVE reversed(_)
reversed(seq) == IF seq = <<>> THEN <<>> ELSE Append(reversed(Tail(seq)), Head(seq))

\* a variant: no entry is dropped
KeepFirst_All(seq, instructions) == seq

\* [i for i in seq if not (i in instructions or instructions.add(i))]
RECURSIVE KeepFirst(_, _)
KeepFirst(seq, instructions) ==
    IF seq = <<>> THEN <<>>
    ELSE IF SetKey(Head(seq)) \in instructions THEN KeepFirst(Tail(seq), instructions)
    ELSE <<Head(seq)>> \o KeepFirst(Tail(seq), instructions \cup {SetKey(Head(seq))})

\* the list slice() returns
slice_instructions(DS) == KeepFirst(reversed(DS), {})

\* the stack housekeeping of one iteration: [err, fs, stack_simulation]
Housekeeping(fs, attribute_variables, new_attribute_object_uses, last_state, stack_simulation) ==
    LET fs1 == set_attribute_uses(fs, attribute_variables)
        fs2 == IF last_state.returned
               THEN set_import_frame(
                        set_attribute_uses(push_stack(fs1, last_state.code_object_id),
                                           new_attribute_object_uses),
                        last_state.import_back_call)
               ELSE fs1
        leaves == last_state.call \/ last_state.import_start
        fs3 == IF ~leaves THEN fs2
               ELSE IF stack_simulation THEN pop_stack(fs2)
               ELSE push_artificial_stack(pop_stack(fs2))
    IN IF Len(fs) = 0 THEN [err |-> "IndexError", fs |-> fs, stack_simulation |-> FALSE]
       ELSE IF leaves /\ ~PopStackAssertion(fs2)
       THEN [err |-> "AssertionError", fs |-> fs, stack_simulation |-> FALSE]
       ELSE IF Len(fs3) = 0
       THEN [err |-> "IndexError", fs |-> fs, stack_simulation |-> FALSE]
       ELSE [err |-> "", fs |-> fs3, stack_simulation |-> stack_simulation \/ leaves]

\* a variant: a result whose locals step forward in the trace and the code
IterationResult_Stuck(err, returned, s, fs, ctx) ==
    [err |-> err, returned |-> returned,
     sl |-> [s EXCEPT !.trace_position = IF s.steps > 0 THEN @ + 1 ELSE @,
                      !.offset = IF s.steps > 0 THEN @ + 2 ELSE @],
     trace_stack |-> fs, context |-> ctx]

\* what an iteration yields
IterationResult(err, returned, s, fs, ctx) ==
    [err |-> err, returned |-> returned, sl |-> s, trace_stack |-> fs, context |-> ctx]

\* lines 245-257: DS, the uses, S_C, the stack and the locals of the next
\* iteration
EndIteration(s, last_state, last_unique_instr, last_traced_instr, stack_simulation, se, uses, code_object_dependent, in_slice, include_use, import_back_call, fs, ctx) ==
    LET included == [last_unique_instr EXCEPT !.in_slice = in_slice /\ stack_simulation]
        ctx3 == IF in_slice THEN [ctx EXCEPT !.DS = Append(@, included)] ELSE ctx
        au == IF in_slice /\ included.op \in MEMORY_USE_INSTRUCTIONS /\ include_use
              THEN add_uses(ctx3, last_traced_instr)
              ELSE [ctx |-> ctx3, err |-> ""]
    IN IF au.err # "" THEN IterationResult(au.err, FALSE, s, fs, ctx)
       ELSE IterationResult("", FALSE,
              [slicing_criterion |-> s.slicing_criterion,
               file |-> last_state.file, curr_instr |-> last_state.last_instr,
               code_object_id |-> last_state.code_object_id,
               basic_block_id |-> last_state.basic_block_id,
               offset |-> last_state.offset,
               trace_position |-> IF is_traced_instruction(last_state.last_instr)
                                  THEN s.trace_position - 1 ELSE s.trace_position,
               stack_simulation |-> stack_simulation,
               pops |-> se.pops, pushes |-> se.pushes,
               code_object_dependent |-> code_object_dependent,
               new_attribute_object_uses |-> uses,
               import_back_call |-> import_back_call,
               steps |-> s.steps + 1],
              IF stack_simulation
              THEN update_pop_operations(fs, se.pops, included, in_slice) ELSE fs,
              IF in_slice
              THEN add_control_dependencies(au.ctx, included, last_state.code_object_id)
              ELSE au.ctx)

\* a variant: an instruction is in the slice only when something depends on it
Inclusion_DependentOnly(s, last_state, last_unique_instr, last_traced_instr, stack_simulation, se, uses, dep, by_call, import_back_call, up, ctx) ==
    LET dependent == dep \/ up.imp_dependency
    IN EndIteration(s, last_state, last_unique_instr, last_traced_instr,
                    stack_simulation, se, uses,
                    IF dependent /\ ~last_state.call THEN TRUE
                    ELSE IF by_call \/ last_state.returned THEN FALSE
                    ELSE s.code_object_dependent,
                    dependent, up.include_use, import_back_call, up.fs, ctx)

\* lines 222-239: the dependence over the stack and the decision
Inclusion(s, last_state, last_unique_instr, last_traced_instr, stack_simulation, se, uses, dep, by_call, import_back_call, up, ctx) ==
    LET dependent == dep \/ up.imp_dependency
    IN EndIteration(s, last_state, last_unique_instr, last_traced_instr,
                    stack_simulation, se, uses,
                    IF dependent /\ ~last_state.call THEN TRUE
                    ELSE IF by_call \/ last_state.returned THEN FALSE
                    ELSE s.code_object_dependent,
                    dependent \/ (last_state.jump /\ last_state.last_instr.op \in UNCOND_JUMP),
                    up.include_use, import_back_call, up.fs, ctx)

\* lines 211-220: the dependence via a call, and the import statement
CallDependency(s, fs, last_state, last_unique_instr, last_traced_instr, hk, se, control_dependency, ed) ==
    LET stack_simulation == hk.stack_simulation /\ se.err # "uncertain"
        effect == IF se.err = "" THEN se ELSE [se EXCEPT !.pops = s.pops,
                                                         !.pushes = s.pushes]
        by_call == last_state.call /\ s.code_object_dependent
        by_import == by_call /\ last_state.import_start
        prev_import_back_call == get_import_frame(fs)
        fs4 == IF by_import
               THEN update_pop_operations(hk.fs, StaticSE("IMPORT_NAME").pops,
                                          prev_import_back_call, TRUE)
               ELSE hk.fs
    IN IF ed.err # "" THEN IterationResult(ed.err, FALSE, s, fs, ed.ctx)
       ELSE IF by_import /\ ~HasInstr(prev_import_back_call)
       THEN IterationResult("AttributeError", FALSE, s, fs, ed.ctx)
       ELSE IF stack_simulation /\ last_state.returned /\ Len(fs4) < 2
       THEN IterationResult("IndexError", FALSE, s, fs, ed.ctx)
       ELSE Inclusion(s, last_state, last_unique_instr, last_traced_instr,
                      stack_simulation, effect, ed.uses,
                      control_dependency \/ ed.dep \/ by_call, by_call,
                      get_import_frame(hk.fs),
                      IF stack_simulation
                      THEN update_push_operations(fs4, effect.pushes, last_state.returned)
                      ELSE [fs |-> fs4, imp_dependency |-> FALSE, include_use |-> TRUE],
                      IF by_import
                      THEN [ed.ctx EXCEPT !.DS = Append(@, prev_import_back_call)]
                      ELSE ed.ctx)

\* line 206: the explicit data dependence
DataDependency(s, fs, last_state, last_unique_instr, last_traced_instr, hk, se, cd) ==
    CallDependency(s, fs, last_state, last_unique_instr, last_traced_instr, hk, se,
                   cd.dep,
                   check_explicit_data_dependency(cd.ctx, last_unique_instr,
                                                  last_traced_instr))

\* lines 187-200: the stack effect and the control dependence
ControlDependency(s, fs, ctx, last_state, last_unique_instr, last_traced_instr, hk, se) ==
    IF hk.err # "" THEN IterationResult(hk.err, FALSE, s, fs, ctx)
    ELSE IF se.err = "value" THEN IterationResult("ValueError", FALSE, s, fs, ctx)
    ELSE DataDependency(s, fs, last_state, last_unique_instr, last_traced_instr, hk, se,
                        check_control_dependency(
                            [ctx EXCEPT !.attribute_variables = get_attribute_uses(hk.fs)],
                            last_unique_instr, last_state.code_object_id))

\* lines 144-188: the end of the walk, the trace position and the stack
\* housekeeping; the import back call is the IMPORT_NAME the walk stands at,
\* whose event is the one after trace_position
AfterLast(tr, s, fs, ctx, last_state) ==
    LET traced == is_traced_instruction(last_state.last_instr)
        at == PyIndex(tr, s.trace_position)
    IN IF last_state.err # "" THEN IterationResult(last_state.err, FALSE, s, fs, ctx)
       ELSE IF ~HasInstr(last_state.last_instr)
       THEN IterationResult("", TRUE, s, fs, ctx)
       ELSE IF traced /\ at = 0 THEN IterationResult("IndexError", FALSE, s, fs, ctx)
       ELSE ControlDependency(s, fs, ctx, last_state,
                [UniqueInstruction(last_state.file, last_state.last_instr,
                                   last_state.code_object_id, last_state.basic_block_id,
                                   last_state.offset)
                   EXCEPT !.id = s.steps + 1, !.ev = IF traced THEN at - 1 ELSE -1],
                IF traced THEN tr[at] ELSE NoEvent,
                Housekeeping(fs, ctx.attribute_variables, s.new_attribute_object_uses,
                             IF HasInstr(last_state.import_back_call)
                             THEN [last_state EXCEPT
                                      !.import_back_call.ev = s.trace_position + 1,
                                      !.import_back_call.id = s.steps]
                             ELSE last_state,
                             s.stack_simulation /\ ~last_state.exception),
                stack_effect(last_state.last_instr.op, last_state.last_instr.n,
                             last_state.jump))

\* one iteration of the loop of slice():
\* [err, returned, sl, trace_stack, context]
SliceIteration(tr, s, fs, ctx) ==
    AfterLast(tr, s, fs, ctx,
              get_last_instruction(tr, s.file, s.curr_instr, s.trace_position, s.offset,
                                   s.code_object_id, s.basic_block_id,
                                   s.import_back_call))

\* UniqueInstruction.locate_in_disassembly: the instruction of the code
\* object with this opcode at this offset, NoInstr if there is none
locate_in_disassembly(op, offset, co) ==
    LET at == {<<bb, idx>> \in (0 .. NumBlocks(co) - 1) \X (0 .. 20) :
                  /\ idx < Len(Block(co, bb))
                  /\ BlockOffset(co, bb) + 2 * idx = offset
                  /\ InstrAt(co, bb, idx).op = op}
    IN IF at = {} THEN NoInstr
       ELSE LET where == CHOOSE w \in at : TRUE IN InstrAt(co, where[1], where[2])

\* the UniqueInstruction built from the event at index position of the trace
CriterionAt(position) ==
    LET ev == EventAt(trace, position)
    IN [UniqueInstruction(ev.file, locate_in_disassembly(ev.op, ev.offset, ev.co),
                          ev.co, ev.bb, ev.offset)
          EXCEPT !.id = 0, !.ev = position, !.in_slice = TRUE]

\* the call slice(trace, criterion, position - 1)
CallSlice(position) ==
    LET found == HasInstr(locate_in_disassembly(EventAt(trace, position).op,
                                                EventAt(trace, position).offset,
                                                EventAt(trace, position).co))
        b == BeginSlice(CriterionAt(position), position - 1)
    IN /\ sl' = IF found THEN b.sl ELSE NoSlicer
       /\ trace_stack' = IF found THEN b.trace_stack ELSE <<>>
       /\ context' = IF found THEN b.context ELSE SlicingContext
       /\ outcome' = IF found THEN b.err ELSE "InstructionNotFoundException"
       /\ sliced' = <<>>
       /\ pc' = IF found /\ b.err = "" THEN "slicing" ELSE "sliced"

\* slice_function_at_return and its like: slice() on the trace of a
\* function, the criterion being one of the trace's events
ApiSlice(position) ==
    /\ mode = "api"
    /\ pc = "finished"
    /\ position \in 0 .. Len(trace) - 1
    /\ CallSlice(position)
    /\ UNCHANGED <<existing_code_objects, _module_traces, alarm, mode, entry, tests_run, result, frames, iters, trace, known, assertions,
                   current_assertion, ai, stats>>

\* one iteration of the loop of slice(); the clock may have passed the
\* deadline at the end of it
SliceStep ==
    /\ pc = "slicing"
    /\ LET it == SliceIteration(trace, sl, trace_stack, context)
       IN /\ sl' = it.sl
          /\ trace_stack' = it.trace_stack
          /\ context' = it.context
          /\ sliced' = IF it.returned THEN slice_instructions(context.DS) ELSE sliced
          /\ \E timeout \in BOOLEAN :
                /\ timeout => it.err = "" /\ ~it.returned
                /\ outcome' = IF it.err # "" THEN it.err
                              ELSE IF it.returned THEN "returned"
                              ELSE IF timeout THEN "SlicingTimeoutException"
                              ELSE ""
                /\ pc' = IF it.err # "" \/ it.returned \/ timeout THEN "sliced"
                         ELSE "slicing"
    /\ UNCHANGED <<existing_code_objects, _module_traces, alarm, mode, entry, tests_run, result, frames, iters, trace, known, assertions,
                   current_assertion, ai, stats>>

\* the counters of TestExecutor; outcomes lists how the slices of the
\* current trace ended
NoStats ==
    [_num_successful_testcases |-> 0, _num_found_assertions |-> 0,
     _num_sliced_assertions |-> 0, _num_aborted_assertion_slicing |-> 0,
     outcomes |-> <<>>]

\* TestExecutor.combine_trace: [trace, module_offset], the events of the
\* module's import put before those of the test
combine_trace(tr) ==
    IF Len(tr) > 0
    THEN [trace |-> _module_traces \o tr, module_offset |-> Len(_module_traces)]
    ELSE [trace |-> tr, module_offset |-> 0]

\* TestListener.stopTest: a successful test hands its trace to
\* TestExecutor.new_trace (ExecutionTracer.get_trace ends the open
\* assertion, combine_trace puts the import trace in front), any other is
\* cancelled
stopTest ==
    /\ mode = "suite"
    /\ pc = "finished"
    /\ entry \in TestEntries
    /\ alarm' = "off"
    /\ IF result # "SUCCESS"
       THEN /\ pc' = "idle"
            /\ UNCHANGED <<trace, assertions, current_assertion, ai, stats>>
       ELSE IF current_assertion # NoAssertion /\ ~EndAssertionOk(current_assertion)
       THEN /\ pc' = "crashed"
            /\ UNCHANGED <<trace, assertions, current_assertion, ai, stats>>
       ELSE /\ pc' = "assertions"
            /\ trace' = combine_trace(trace).trace
            /\ assertions' = IF current_assertion # NoAssertion
                             THEN Append(assertions, current_assertion) ELSE assertions
            /\ current_assertion' = NoAssertion
            /\ ai' = 0
            /\ stats' = [stats EXCEPT !._num_successful_testcases = @ + 1,
                                      !.outcomes = <<>>]
    /\ UNCHANGED <<existing_code_objects, _module_traces, mode, entry, tests_run, result, frames, iters, known, sl,
                   trace_stack, context, outcome, sliced>>

\* new_trace, the head of its loop: the next traced assertion is sliced, or
\* new_trace returns
SliceAssertion ==
    /\ pc = "assertions"
    /\ IF ai < Len(assertions)
       THEN /\ CallSlice(assertions[ai + 1].trace_position_end + Len(_module_traces))
            /\ stats' = [stats EXCEPT !._num_found_assertions = @ + 1]
       ELSE /\ pc' = "idle"
            /\ UNCHANGED <<sl, trace_stack, context, outcome, sliced, stats>>
    /\ UNCHANGED <<existing_code_objects, _module_traces, alarm, mode, entry, tests_run, result, frames, iters, trace, known, assertions,
                   current_assertion, ai>>

\* new_trace after slice() has ended: the handlers around the call
AfterSlice ==
    /\ mode = "suite"
    /\ pc = "sliced"
    /\ CASE outcome = "returned" ->
                /\ stats' = [stats EXCEPT !._num_sliced_assertions = @ + 1,
                                          !.outcomes = Append(@, outcome)]
                /\ ai' = ai + 1
                /\ pc' = "assertions"
         [] outcome = "SlicingTimeoutException" ->
                /\ stats' = [stats EXCEPT !._num_aborted_assertion_slicing = @ + 1,
                                          !.outcomes = Append(@, outcome)]
                /\ ai' = ai
                /\ pc' = "idle"                          \* break
         [] outcome = "ValueError" ->
                /\ stats' = [stats EXCEPT !.outcomes = Append(@, outcome)]
                /\ ai' = ai + 1
                /\ pc' = "assertions"
         [] OTHER ->
                /\ stats' = [stats EXCEPT !.outcomes = Append(@, outcome)]
                /\ ai' = ai
                /\ pc' = "crashed"                       \* no handler
    /\ UNCHANGED <<existing_code_objects, _module_traces, alarm, mode, entry, tests_run, result, frames, iters, trace, known, assertions,
                   current_assertion, sl, trace_stack, context, outcome, sliced>>

Init ==
    /\ existing_code_objects =
            [id \in 1 .. Len(InstrumentedCode) |-> CodeObjectMetaData(InstrumentedCode[id])]
    /\ _module_traces = <<>>
    /\ alarm = "off"
    /\ mode \in {"api", "suite"}
    /\ pc = "idle"
    /\ entry = -1
    /\ tests_run = 0
    /\ result = ""
    /\ frames = <<>>
    /\ iters = 0
    /\ trace = <<>>
    /\ known = {}
    /\ assertions = <<>>
    /\ current_assertion = NoAssertion
    /\ ai = 0
    /\ sl = NoSlicer
    /\ trace_stack = <<>>
    /\ context = SlicingContext
    /\ outcome = ""
    /\ sliced = <<>>
    /\ stats = NoStats

Next ==
    \/ \E p \in ModuleEntries : _get_module_from_name(p)
    \/ end_setup
    \/ \E p \in TestEntries : startTest(p)
    \/ \E p \in ApiEntries : exec_function(p)
    \/ ExecuteInstruction
    \/ RaiseException
    \/ timeout_handler
    \/ stopTest
    \/ SliceAssertion
    \/ \E position \in 0 .. 2 * RecursionLimit : ApiSlice(position)
    \/ SliceStep
    \/ AfterSlice

Spec == Init /\ [][Next]_vars

(***************************************************************************)
(* The instrumentation of one code object with an arbitrary small control  *)
(* flow graph: InstructionInstrumentation computes its control dependence  *)
(* graph and registers it.  A generated block is the instruction that ends *)
(* it.                                                                     *)
(***************************************************************************)
MaxBlocks == 4

\* the ways a block ends: it falls into the next block, returns, jumps, or
\* branches to a block or falls into the next
BlockEnds(n) ==
    {<<"fall", -1>>, <<"return", -1>>} \cup {<<"jump", t>> : t \in 0 .. n - 1}
        \cup {<<"branch", t>> : t \in 0 .. n - 1}

EndInstr(e) ==
    CASE e[1] = "fall" -> Ins("POP_TOP", "", -1, 1)
      [] e[1] = "return" -> Ins("RETURN_VALUE", "", -1, 1)
      [] e[1] = "jump" -> Jmp("JUMP_ABSOLUTE", e[2], 1, "jump")
      [] e[1] = "branch" -> Jmp("POP_JUMP_IF_FALSE", e[2], 1, "any")

GeneratedCode(ends) ==
    [file |-> "generated.py", cellvars |-> {}, name |-> "generated", parent |-> -1,
     blocks |-> [b \in 1 .. Len(ends) |-> <<EndInstr(ends[b])>>]]

\* the nodes reached from the given ones in at most n steps
RECURSIVE CfgReach(_, _, _)
CfgReach(code, nodes, n) ==
    IF n = 0 THEN nodes
    ELSE CfgReach(code, nodes \cup UNION {Successors(code, m) : m \in nodes}, n - 1)

\* the nodes from which the given ones are reached in at most n steps
RECURSIVE CfgCoReach(_, _, _)
CfgCoReach(code, nodes, n) ==
    IF n = 0 THEN nodes
    ELSE CfgCoReach(code,
                    nodes \cup {m \in Nodes(code) : Successors(code, m) \cap nodes # {}},
                    n - 1)

\* what the compiler emits: code ends in a return or a jump, no jump goes to
\* the block that follows it anyway, every block is reached from the entry
\* and the exit is reached from every block
WellFormed(code) ==
    /\ code.blocks[Len(code.blocks)][1].op \in {"RETURN_VALUE", "JUMP_ABSOLUTE"}
    /\ \A b \in 1 .. Len(code.blocks) : code.blocks[b][1].tgt # b
    /\ 0 .. Len(code.blocks) - 1 \subseteq CfgReach(code, {EntryNode}, Len(code.blocks))
    /\ 0 .. Len(code.blocks) - 1 \subseteq CfgCoReach(code, {ExitNode(code)}, Len(code.blocks))

SmallCode(max_blocks) ==
    {code \in {GeneratedCode(ends) :
                    ends \in UNION {[1 .. n -> BlockEnds(n)] : n \in 1 .. max_blocks}} :
        WellFormed(code)}

\* InstructionInstrumentation.instrument_code_recursive on a module of one
\* code object: the CDG is computed and the code object registered
instrument_code_recursive(code) ==
    /\ mode = "instrument"
    /\ existing_code_objects = <<>>
    /\ existing_code_objects' = Append(existing_code_objects, CodeObjectMetaData(code))
    /\ UNCHANGED <<_module_traces, alarm, mode, pc, entry, tests_run, result, frames, iters, trace, known,
                   assertions, current_assertion, ai, sl, trace_stack, context, outcome, sliced,
                   stats>>

InitInstrument ==
    /\ existing_code_objects = <<>>
    /\ _module_traces = <<>>
    /\ alarm = "off"
    /\ mode = "instrument"
    /\ pc = "idle"
    /\ entry = -1
    /\ tests_run = 0
    /\ result = ""
    /\ frames = <<>>
    /\ iters = 0
    /\ trace = <<>>
    /\ known = {}
    /\ assertions = <<>>
    /\ current_assertion = NoAssertion
    /\ ai = 0
    /\ sl = NoSlicer
    /\ trace_stack = <<>>
    /\ context = SlicingContext
    /\ outcome = ""
    /\ sliced = <<>>
    /\ stats = NoStats

NextInstrument == \E code \in SmallCode(MaxBlocks) : instrument_code_recursive(code)

SpecInstrument == InitInstrument /\ [][NextInstrument]_vars

(***************************************************************************)
(* Properties of slice().                                                  *)
(***************************************************************************)
Returned == pc = "sliced" /\ outcome = "returned"

\* the four coordinates UniqueInstruction.__hash__ is computed from
HashKey(u) == <<u.op, u.co, u.bb, u.offset>>

\* C1: whenever slice() returns, the instruction of the slicing criterion is
\* a member of the returned list of instructions.
C1_CriterionInSlice ==
    Returned => \E i \in 1 .. Len(sliced) : SetKey(sliced[i]) = SetKey(sl.slicing_criterion)

\* a slice with the criterion and at least two other instructions
C1_Witness == Returned /\ Len(sliced) >= 3

SliceEndings ==
    {"returned", "SlicingTimeoutException", "ValueError", "InstructionNotFoundException",
     "UncertainStackEffectException", "AssertionError", "IndexError", "AttributeError"}

C5_UniqueByHashKey ==
    Returned =>
        /\ \A i, j \in 1 .. Len(sliced) : HashKey(sliced[i]) = HashKey(sliced[j]) => i = j
        /\ {HashKey(sliced[i]) : i \in 1 .. Len(sliced)}
               = {HashKey(context.DS[i]) : i \in 1 .. Len(context.DS)}

\* an instruction was appended to DS more than once
C5_Witness == Returned /\ Len(context.DS) > Len(sliced) /\ Len(sliced) >= 2

\* C6 as stated: the criterion is the first entry of a returned slice.
C6_Original ==
    Returned /\ Len(sliced) >= 1 => SetKey(sliced[1]) = SetKey(sl.slicing_criterion)

\* the place in DS of the last inclusion of an instruction
LastInclusion(u) ==
    CHOOSE k \in 1 .. Len(context.DS) :
        /\ SetKey(context.DS[k]) = SetKey(u)
        /\ \A m \in k + 1 .. Len(context.DS) : SetKey(context.DS[m]) # SetKey(u)

\* C6 amended: a returned slice is in execution order, the entries included
\* later by the backward walk coming first, and an instruction that was
\* included at several steps keeps the place of its last inclusion by the
\* backward walk, its earliest execution; the criterion is the last entry
\* unless the walk included its instruction again.  The walk includes in the
\* order it steps, except for an IMPORT_NAME, which is included when the
\* walk leaves the imported module and so stands before the module's code.
C6_ExecutionOrder ==
    Returned =>
        /\ \A i, j \in 1 .. Len(sliced) :
              i < j => LastInclusion(sliced[i]) > LastInclusion(sliced[j])
        /\ \A k \in 1 .. Len(context.DS) :
              \E i \in 1 .. Len(sliced) : SetKey(sliced[i]) = SetKey(context.DS[k])
        /\ \A k, m \in 1 .. Len(context.DS) :
              k < m => \/ context.DS[k].id < context.DS[m].id
                       \/ context.DS[m].op \in OP_IMPORT_NAME
        /\ (\A k \in 2 .. Len(context.DS) :
                SetKey(context.DS[k]) # SetKey(sl.slicing_criterion))
              => sliced[Len(sliced)] = sl.slicing_criterion

\* an instruction was included at several steps and others lie between its
\* inclusions
C6_Witness ==
    /\ Returned
    /\ Len(sliced) >= 3
    /\ \E k, m \in 1 .. Len(context.DS) :
          /\ k + 1 < m
          /\ SetKey(context.DS[k]) = SetKey(context.DS[m])

(***************************************************************************)
(* Properties of TestExecutor.new_trace.                                   *)
(***************************************************************************)

\* C7 as stated: when new_trace is back from a trace one of whose slices ran
\* into the timeout, every traced assertion of that trace has been handed
\* to slice().
C7_Original ==
    /\ mode = "suite"
    /\ pc = "idle"
    /\ result = "SUCCESS"
    /\ \E k \in 1 .. Len(stats.outcomes) : stats.outcomes[k] = "SlicingTimeoutException"
    => Len(stats.outcomes) = Len(assertions)

\* C8 as stated: no exception that slice() raises leaves new_trace.
C8_Original ==
    ~(pc = "crashed" /\ outcome \notin {"", "returned", "SlicingTimeoutException"})

\* C9 as stated: slice() does not end with UncertainStackEffectException.
C9_Original == ~(pc = "sliced" /\ outcome = "UncertainStackEffectException")

(***************************************************************************)
(* Control dependence.                                                     *)
(***************************************************************************)

\* the instructions of the block, by index, that pushed what the wanted
\* entries of the operand stack hold; wanted lists the stack before the
\* instruction at idx + 1, the top first
RECURSIVE PushersBefore(_, _, _, _)
PushersBefore(co, bb, idx, wanted) ==
    IF idx < 0 \/ \A k \in 1 .. Len(wanted) : ~wanted[k] THEN {}
    ELSE LET se == stack_effect(InstrAt(co, bb, idx).op, InstrAt(co, bb, idx).n, FALSE)
             pushed == Min(se.pushes, Len(wanted))
             mine == \E k \in 1 .. pushed : wanted[k]
         IN IF se.err # "" THEN {}
            ELSE (IF mine THEN {idx} ELSE {})
                    \cup PushersBefore(co, bb, idx - 1,
                                       [k \in 1 .. se.pops |-> mine]
                                           \o SubSeq(wanted, pushed + 1, Len(wanted)))

\* the index in its block of the instruction an event was recorded for
IndexOf(ev) == (ev.offset - BlockOffset(ev.co, ev.bb)) \div 2

\* the instructions that pushed the operand of the branch of event ev
OperandPushers(ev) ==
    PushersBefore(ev.co, ev.bb, IndexOf(ev) - 1,
                  [k \in 1 .. stack_effect(ev.op, -1, FALSE).pops |-> TRUE])

InSlice(co, bb, offset) ==
    \E i \in 1 .. Len(sliced) :
        sliced[i].co = co /\ sliced[i].bb = bb /\ sliced[i].offset = offset

\* the events of conditional branches on whose block the block of a traced
\* member of the slice is control dependent, recorded before that member
ControllingBranches ==
    {b \in 1 .. Len(trace) :
        /\ trace[b].op \in COND_BRANCH_INSTRUCTIONS
        /\ \E i \in 1 .. Len(sliced) :
              /\ sliced[i].ev >= b
              /\ sliced[i].co = trace[b].co
              /\ sliced[i].bb \in CdgSuccessors(trace[b].co, trace[b].bb)}

\* the member of the slice for the branch of the event at b
BranchMember(b) ==
    {i \in 1 .. Len(sliced) :
        /\ sliced[i].co = trace[b].co
        /\ sliced[i].bb = trace[b].bb
        /\ sliced[i].offset = trace[b].offset}

\* the pushers of the operand of the branch at b are in the slice, and so
\* are the most recent definitions of the local variables they load
OperandInSlice(b) ==
    \A idx \in OperandPushers(trace[b]) :
        LET load == InstrAt(trace[b].co, trace[b].bb, idx)
            defs == {d \in 1 .. b - 1 :
                        /\ trace[d].op = "STORE_FAST"
                        /\ trace[d].arg = load.arg
                        /\ trace[d].co = trace[b].co}
        IN /\ InSlice(trace[b].co, trace[b].bb,
                      BlockOffset(trace[b].co, trace[b].bb) + 2 * idx)
           /\ load.op = "LOAD_FAST" /\ defs # {} =>
                 LET d == CHOOSE m \in defs : \A j \in defs : j <= m
                 IN InSlice(trace[d].co, trace[d].bb, trace[d].offset)

ExecutedBranches ==
    {<<trace[b].co, trace[b].bb, trace[b].offset>> :
        b \in {k \in 1 .. Len(trace) : /\ k <= sl.slicing_criterion.ev + 1
                                       /\ trace[k].op \in COND_BRANCH_INSTRUCTIONS}}

RECURSIVE CdgReach(_, _, _)
CdgReach(co, blocks, n) ==
    IF n = 0 THEN blocks
    ELSE CdgReach(co, blocks \cup UNION {CdgSuccessors(co, b) : b \in blocks}, n - 1)

\* the region a branch guards: the blocks that are control dependent on the
\* block of the branch, directly or through other branches
GuardedBlocks(co, bb) == CdgReach(co, CdgSuccessors(co, bb), NumBlocks(co)) \ {bb}

\* the events recorded in the region of the branch up to the criterion
RegionEvents(B) ==
    {j \in 1 .. sl.slicing_criterion.ev + 1 :
        trace[j].co = B[1] /\ trace[j].bb \in GuardedBlocks(B[1], B[2])}

\* nothing the criterion depends on is executed in the region of the branch:
\* the criterion is neither the branch nor in the region, and the region
\* did nothing but compute values and store them to local variables that
\* are not loaded afterwards
NothingDependsOn(B) ==
    /\ sl.slicing_criterion.co # B[1]
         \/ /\ sl.slicing_criterion.bb \notin GuardedBlocks(B[1], B[2])
            /\ sl.slicing_criterion.ev >= 0
            /\ <<sl.slicing_criterion.bb, sl.slicing_criterion.offset>> # <<B[2], B[3]>>
    /\ \A j \in RegionEvents(B) :
          /\ trace[j].op \in {"STORE_FAST", "LOAD_FAST"} \cup OP_COMPARE \cup OP_BINARY
                                \cup OP_ABSOLUTE_JUMP \cup OP_RELATIVE_JUMP
          /\ trace[j].op = "STORE_FAST" =>
                ~\E k \in j + 1 .. sl.slicing_criterion.ev + 1 :
                    /\ trace[k].op = "LOAD_FAST"
                    /\ trace[k].arg = trace[j].arg
                    /\ trace[k].co = trace[j].co

\* neither the branch nor an instruction of its region is in the slice
BranchAndRegionExcluded(B) ==
    /\ ~InSlice(B[1], B[2], B[3])
    /\ \A i \in 1 .. Len(sliced) :
          ~(sliced[i].co = B[1] /\ sliced[i].bb \in GuardedBlocks(B[1], B[2]))

RegionLeftByJump(B) == \E j \in RegionEvents(B) : trace[j].op \in UNCOND_JUMP

\* an instruction of another code object is in the slice, registered in S_C,
\* in a basic block whose index is that of a block depending on the branch:
\* check_control_dependency compares the indices of the blocks only
ForeignDependent(B) ==
    \E i \in 1 .. Len(context.DS) :
        /\ context.DS[i].co # B[1]
        /\ \E p \in CdgPredecessors(context.DS[i].co, context.DS[i].bb) :
              ~IsArtificial(context.DS[i].co, p)
        /\ context.DS[i].bb \in CdgSuccessors(B[1], B[2])

SlicedAtReturn(p) ==
    /\ Returned
    /\ mode = "api"
    /\ entry = p
    /\ sl.slicing_criterion.ev = Len(trace) - 1

\* an instruction of the block with the opcode and argument is in the slice
SliceHas(co, bb, op, arg) ==
    \E i \in 1 .. Len(sliced) :
        sliced[i].co = co /\ sliced[i].bb = bb /\ sliced[i].op = op /\ sliced[i].arg = arg

\* the slice as a list of <<opcode, argument, block>>
SliceListing == [i \in 1 .. Len(sliced) |-> <<sliced[i].op, sliced[i].arg, sliced[i].bb>>]

\* C16 as stated: the slice of control_dependency_2 at its return, the
\* branch not taken, contains the defs of foo and bar, the comparison, the
\* conditional jump, result = 3 and the return, and not result = 1.
C16_Original ==
    SlicedAtReturn(9) =>
        /\ SliceHas(9, 0, "STORE_FAST", "foo")
        /\ SliceHas(9, 0, "STORE_FAST", "bar")
        /\ SliceHas(9, 0, "COMPARE_OP", "==")
        /\ SliceHas(9, 0, "POP_JUMP_IF_FALSE", "")
        /\ SliceHas(9, 0, "STORE_FAST", "result")
        /\ SliceHas(9, 2, "RETURN_VALUE", "")
        /\ ~SliceHas(9, 1, "STORE_FAST", "result")

\* C16 amended: the slice of control_dependency_2 at its return, the branch
\* not taken, is result = 3 and return result; the defs of foo and bar, the
\* comparison, the conditional jump and the guarded result = 1 are not in
\* it.
C16_OnlyResultAndReturn ==
    SlicedAtReturn(9) =>
        SliceListing = << <<"LOAD_CONST", "3", 0>>, <<"STORE_FAST", "result", 0>>,
                          <<"LOAD_FAST", "result", 2>>, <<"RETURN_VALUE", "", 2>> >>

\* control_dependency_2 has run without entering the guarded block and has
\* been sliced at its return
C16_Witness ==
    /\ SlicedAtReturn(9)
    /\ \E k \in 1 .. Len(trace) : trace[k].op = "POP_JUMP_IF_FALSE" /\ trace[k].co = 9
    /\ \A k \in 1 .. Len(trace) : trace[k].bb # 1

(***************************************************************************)
(* Data dependence.                                                        *)
(***************************************************************************)

\* the members of the slice that the backward walk included for a load of
\* a local variable
IncludedLoads ==
    {i \in 1 .. Len(sliced) :
        sliced[i].op = "LOAD_FAST" /\ sliced[i].ev >= 0
            /\ sliced[i].ev < sl.slicing_criterion.ev}

\* the events, before the event at e, that define the local variable
DefsBefore(e, name, co) ==
    {d \in 1 .. e :
        trace[d].op = "STORE_FAST" /\ trace[d].arg = name /\ trace[d].co = co}

\* the most recent definition of the variable a member loads is in the slice
DefInSlice(i) ==
    LET defs == DefsBefore(sliced[i].ev, sliced[i].arg, sliced[i].co)
    IN defs # {} =>
          LET d == CHOOSE m \in defs : \A j \in defs : j <= m
          IN InSlice(trace[d].co, trace[d].bb, trace[d].offset)

\* the members of the slice that are stores to local variables
IncludedStores == {i \in 1 .. Len(sliced) : sliced[i].op = "STORE_FAST" /\ sliced[i].ev >= 0}

\* the instructions that pushed the operand of a store are in the slice
StoreOperandInSlice(i) ==
    \A idx \in OperandPushers(EventAt(trace, sliced[i].ev)) :
        InSlice(sliced[i].co, sliced[i].bb, BlockOffset(sliced[i].co, sliced[i].bb) + 2 * idx)

PreparesAttribute(i) ==
    LET idx == (sliced[i].offset - BlockOffset(sliced[i].co, sliced[i].bb)) \div 2
    IN /\ idx + 1 < Len(Block(sliced[i].co, sliced[i].bb))
       /\ InstrAt(sliced[i].co, sliced[i].bb, idx + 1).op
             \in {"STORE_ATTR", "STORE_SUBSCR", "LOAD_ATTR", "DELETE_ATTR", "IMPORT_FROM"}

NoPendingUse(ev) ==
    /\ <<ev.arg, ev.co>> \notin context.D_local
    /\ ev.addr \notin context.D_addresses
    /\ context.D_attributes = {}
    /\ context.attribute_variables = {}
    /\ Top(trace_stack).attribute_uses = {}

\* this step of the backward walk is at an instruction with the opcode
StepOn(ops) == pc = "slicing" /\ sl'.steps = sl.steps + 1 /\ sl'.curr_instr.op \in ops

\* the entry on top of the shadow stack is a store that is not in the slice
TopIsExcludedStore ==
    /\ trace_stack # <<>>
    /\ Top(trace_stack).stack # <<>>
    /\ LET e == Top(trace_stack).stack[Len(Top(trace_stack).stack)]
       IN e.op = "STORE_FAST" /\ ~e.in_slice

EntersCallee(k) ==
    trace[k].kind = "call" /\ InstrAt(trace[k].co, trace[k].bb, IndexOf(trace[k])).callee >= 0

\* the number of invocations open when the event at k was recorded, the
\* run of the entry function not counted
RECURSIVE DepthAt(_)
DepthAt(k) ==
    IF k <= 1 THEN 0
    ELSE DepthAt(k - 1) + (IF EntersCallee(k - 1) THEN 1
                           ELSE IF trace[k - 1].op = "RETURN_VALUE" THEN -1 ELSE 0)

\* the call events that started the invocation the event at k belongs to
CallerOf(k) ==
    LET calls == {c \in 1 .. k - 1 : EntersCallee(c) /\ DepthAt(c) = DepthAt(k) - 1}
    IN IF calls = {} THEN {} ELSE {CHOOSE c \in calls : \A d \in calls : d <= c}

\* C14 as stated: for every instruction that the backward walk put in the
\* slice and that was executed during an invocation, the call instruction
\* that started the invocation is in the slice.
C14_Original ==
    Returned /\ mode = "api" =>
        \A i \in 1 .. Len(sliced) :
            sliced[i].ev >= 0 /\ sliced[i].ev < sl.slicing_criterion.ev =>
                \A c \in CallerOf(sliced[i].ev + 1) :
                    InSlice(trace[c].co, trace[c].bb, trace[c].offset)

\* C17 as stated: the slice of mod_untraced_object at its return contains
\* LOAD_METHOD sort and CALL_METHOD 0 besides the list build, the store to
\* result and the return.
C17_Original ==
    SlicedAtReturn(15) =>
        /\ SliceHas(15, 0, "LOAD_METHOD", "sort")
        /\ SliceHas(15, 0, "CALL_METHOD", "")
        /\ SliceHas(15, 0, "BUILD_LIST", "")
        /\ SliceHas(15, 0, "STORE_FAST", "result")
        /\ SliceHas(15, 0, "RETURN_VALUE", "")

(***************************************************************************)
(* The if-elif-else chain of control_dependency_3.                         *)
(***************************************************************************)

\* the blocks of the code object in which an event was recorded
ExecutedBlocks(co) == {trace[k].bb : k \in {j \in 1 .. Len(trace) : trace[j].co = co}}

\* the blocks that end in a conditional jump, and those that store result
GuardBlocks(co) ==
    {b \in 0 .. NumBlocks(co) - 1 :
        InstrAt(co, b, Len(Block(co, b)) - 1).op \in COND_BRANCH_INSTRUCTIONS}

ArmBlocks(co) ==
    {b \in 0 .. NumBlocks(co) - 1 :
        \E idx \in 0 .. Len(Block(co, b)) - 1 :
            InstrAt(co, b, idx).op = "STORE_FAST" /\ InstrAt(co, b, idx).arg = "result"}

\* every instruction of the block from the index on is in the slice
BlockInSliceFrom(co, b, from) ==
    \A idx \in from .. Len(Block(co, b)) - 1 : InSlice(co, b, BlockOffset(co, b) + 2 * idx)

\* C15: the slice of the if-elif-else chain at its return contains the arm
\* that was taken, with the jump that leaves it, and the loads, the
\* comparison and the conditional jump of every guard that was evaluated;
\* it contains no instruction of an arm that was not taken or of a guard
\* that was not evaluated.
C15_ChainGuards ==
    SlicedAtReturn(16) =>
        /\ \A g \in GuardBlocks(16) \cap ExecutedBlocks(16) :
              BlockInSliceFrom(16, g, Len(Block(16, g)) - 4)
        /\ \A a \in ArmBlocks(16) \cap ExecutedBlocks(16) : BlockInSliceFrom(16, a, 0)
        /\ \A i \in 1 .. Len(sliced) : sliced[i].bb \in ExecutedBlocks(16)

\* the chain sliced at its return after the first guard failed: the elif
\* guard was evaluated and the first arm was not taken
C15_Witness ==
    /\ SlicedAtReturn(16)
    /\ 2 \in ExecutedBlocks(16)
    /\ 1 \notin ExecutedBlocks(16)
    /\ Len(sliced) >= 14

(***************************************************************************)
(* The control dependence graph.                                           *)
(***************************************************************************)

\* node post-dominates m in the augmented graph, by paths: every path from m
\* to the exit passes node, i.e. the exit is not reached from m when node
\* is taken out of the graph
RECURSIVE ReachAvoiding(_, _, _, _)
ReachAvoiding(code, nodes, avoid, n) ==
    IF n = 0 THEN nodes
    ELSE ReachAvoiding(code,
                       nodes \cup (UNION {Successors(code, m) : m \in nodes} \ {avoid}),
                       avoid, n - 1)

PostDominates(code, node, m) ==
    \/ node = m
    \/ ExitNode(code) \notin ReachAvoiding(code, {m}, node, Cardinality(Nodes(code)))

\* the pairs <<node, m>> where node post-dominates m
PostDominance(code) ==
    {p \in Nodes(code) \X Nodes(code) : PostDominates(code, p[1], p[2])}

\* control dependence after Ferrante, Ottenstein and Warren: t
\* post-dominates a successor of s and does not strictly post-dominate s
ControlDependence(code) ==
    LET pd == PostDominance(code)
    IN {e \in Nodes(code) \X Nodes(code) :
            /\ \E u \in Successors(code, e[1]) : <<e[2], u>> \in pd
            /\ ~(e[2] # e[1] /\ <<e[2], e[1]>> \in pd)}

\* C18: the computed CDG of every registered code object has the edge
\* s -> t exactly when t is control dependent on s in the augmented graph,
\* and no edge u -> v where v strictly post-dominates u.
C18_CdgIsFerranteOttensteinWarren ==
    \A id \in 1 .. Len(existing_code_objects) :
        LET code == existing_code_objects[id]
            pd == PostDominance(code)
        IN /\ code.original_cdg = ControlDependence(code)
           /\ \A e \in code.original_cdg : e[1] = e[2] \/ <<e[2], e[1]>> \notin pd

\* a registered code object with a loop: a branch that depends on itself
\* and another block that depends on it
C18_Witness ==
    /\ mode = "instrument"
    /\ \E id \in 1 .. Len(existing_code_objects) :
          \E s, t \in 0 .. Len(existing_code_objects[id].blocks) - 1 :
              /\ s # t
              /\ <<s, s>> \in existing_code_objects[id].original_cdg
              /\ <<s, t>> \in existing_code_objects[id].original_cdg

(***************************************************************************)
(* The shadow stack.                                                       *)
(***************************************************************************)

\* the block stack that update_pop_operations pushes to and that
\* update_push_operations pops from
CurrentBlockStack == Top(trace_stack).stack

\* the walk is in the frame in which it began, the last of the frames that
\* TraceStack prepared
InStartFrame ==
    /\ Len(trace_stack) = DEFAULT_STACK_HEIGHT
    /\ Top(trace_stack).co = -1
    /\ Top(trace_stack).nblocks = DEFAULT_FRAME_HEIGHT

\* the code object has an opcode with uncertain stack effect
HasUncertain(co) ==
    \E bb \in 1 .. Len(Code(co).blocks) :
        \E i \in 1 .. Len(Code(co).blocks[bb]) : Code(co).blocks[bb][i].op \in UNCERTAIN

\* the walk has met no opcode with uncertain stack effect: the simulation
\* is still on in this frame and no frame that was called has such an opcode
NoUncertainMet ==
    /\ sl.stack_simulation
    /\ \A k \in 1 .. Len(trace) :
          trace[k].co # sl.slicing_criterion.co => ~HasUncertain(trace[k].co)

\* a backward walk from the criterion to the instruction slice() looks at
\* next, all in the frame it began in
WalkInStartFrame ==
    /\ pc \in {"slicing", "sliced"}
    /\ outcome \in {"", "returned"}
    /\ sl.steps >= 0
    /\ InStartFrame
    /\ NoUncertainMet

ImportIncludedOnLeaving ==
    \E m \in 2 .. Len(context.DS) :
        /\ context.DS[m].op \in OP_IMPORT_NAME
        /\ context.DS[m].id < context.DS[m - 1].id

FrameStackUnderflow ==
    /\ pc = "sliced"
    /\ outcome = "IndexError"
    /\ Len(trace_stack) <= 1
    /\ sl.steps > 0

\* C20 as stated: wherever in the trace and at whatever call depth the
\* backward walk starts, the frame stack of the simulator never underflows.
C20_Original == ~FrameStackUnderflow

(***************************************************************************)
(* The tracer and the test executor.                                       *)
(***************************************************************************)

\* new_trace has the trace of a test, the import trace in front of it
HandedToSlicer == mode = "suite" /\ pc \in {"assertions", "slicing", "sliced"}

\* the memory event at k is the first of the trace with its address
FirstOfAddress(k) ==
    /\ trace[k].addr # 0
    /\ \A j \in 1 .. k - 1 : trace[j].kind = "mem" => trace[j].addr # trace[k].addr

\* C21 as stated: in a trace handed to the slicer, the import trace of the
\* module in front of the test's, a memory event has object_creation set
\* exactly when its address is not zero and no earlier memory event of the
\* trace has the address.
C21_Original ==
    HandedToSlicer =>
        \A k \in 1 .. Len(trace) :
            trace[k].kind = "mem" => (trace[k].oc <=> FirstOfAddress(k))

\* the per-test timer has expired since startTest of the current test and
\* stopTest has not been called yet
TimedOut == mode = "suite" /\ entry \in TestEntries /\ alarm = "expired"

\* C23 as stated: a test whose timer expired between startTest and stopTest
\* reaches stopTest with the result EXCEEDED_RUNTIME.  The code gives that
\* result only when the timer expires inside startTest; expiry in the body of
\* the test is reported through addError and the result is ERROR.
C23_Original ==
    (TimedOut /\ pc = "finished") => result = "EXCEEDED_RUNTIME"

\* the events of the trace that are the call of an assert method of TestCase:
\* the CALL_METHOD on the line of the load of the method
IsAssertCall(e) ==
    /\ e.kind = "call"
    /\ e.op = "CALL_METHOD"
    /\ \E b \in 1 .. Len(Code(e.co).blocks) : \E i \in 1 .. Len(Code(e.co).blocks[b]) :
          Code(e.co).blocks[b][i].tc /\ Code(e.co).blocks[b][i].line = e.line

ExecutedAssertCalls == {k \in 1 .. Len(trace) : IsAssertCall(trace[k])}

\* stopTest of a successful test has called get_trace
TestEnded ==
    /\ mode = "suite" /\ entry \in TestEntries /\ result = "SUCCESS"
    /\ pc \in {"assertions", "crashed"} /\ ai = 0 /\ sl = NoSlicer

\* the events before those of the test in the trace stopTest has left
TestOffset == IF pc = "assertions" THEN Len(_module_traces) ELSE 0

\* C24 as stated: when a test has ended, traced_assertions has one entry for
\* every executed call of an assert method, in the order of the calls, each
\* with that call as its traced_assertion_call.  An assertion whose call is not
\* in the basic block of the load of its method gets no entry: end_assertion
\* raises AssertionError instead.
C24_Original ==
    TestEnded =>
        /\ Len(assertions) = Cardinality(ExecutedAssertCalls)
        /\ \A i \in 1 .. Len(assertions) :
              /\ assertions[i].trace_position_end + 1 + TestOffset \in ExecutedAssertCalls
              /\ \A j \in 1 .. i - 1 :
                    assertions[j].trace_position_end < assertions[i].trace_position_end

\* a successful test of the suite at stopTest
SuccessAtStop == mode = "suite" /\ pc = "finished" /\ entry \in TestEntries /\ result = "SUCCESS"

\* get_trace ends the open assertion: end_assertion raises if it has no call
get_trace_raises == current_assertion # NoAssertion /\ ~EndAssertionOk(current_assertion)

\* the offsets of the instructions of a code object that the tracer is called
\* for; the run of the code object starts with the lowest of them
TracedOffsets(co) ==
    {BlockOffset(co, b) + 2 * i : <<b, i>> \in
        {<<b, i>> \in (0 .. Len(Code(co).blocks) - 1) \X (0 .. 20) :
            i < Len(Block(co, b)) /\ EventKind(InstrAt(co, b, i).op) # ""}}

IsFirstEvent(e) ==
    e.co = entry /\ \A o \in TracedOffsets(entry) : e.offset <= o

\* the trace and the assertions are those of one run of the test: the trace
\* starts with the first event of the test, which is in it once, and every
\* assertion, ended or open, starts at the load of an assert method that is in
\* the trace, one event after its trace_position_start
FreshTrace ==
    /\ trace # <<>> => IsFirstEvent(trace[1])
    /\ \A k \in 2 .. Len(trace) : ~IsFirstEvent(trace[k])
    /\ \A a \in {assertions[i] : i \in 1 .. Len(assertions)} \cup ({current_assertion} \ {NoAssertion}) :
          /\ a.trace_position_start + 2 \in 1 .. Len(trace)
          /\ LET e == trace[a.trace_position_start + 2]
             IN e.kind = "attr" /\ e.co = a.co /\ e.bb = a.bb /\ e.line = a.line /\ a.co = entry

\* new_trace is called with the trace of the test, once
HandsOver ==
    /\ stats'._num_successful_testcases = stats._num_successful_testcases + 1
    /\ trace' = _module_traces \o trace
    /\ assertions' = IF current_assertion # NoAssertion
                     THEN Append(assertions, current_assertion) ELSE assertions

CriterionPositions(tr, slice_instr) ==
    {i \in 0 .. Len(tr) - 1 :
        /\ tr[i + 1].file = slice_instr.file
        /\ tr[i + 1].op = slice_instr.op
        /\ tr[i + 1].line = slice_instr.line
        /\ tr[i + 1].offset = slice_instr.offset}

\* the greatest occurrence find_trace_position is asked for
MaxOccurrence == 3

\* C25 as stated: for a criterion taken from the trace of a function that
\* has run, find_trace_position gives the position of the occurrence-th event
\* with the file, opcode, line and offset of the criterion, and ValueError
\* only if the trace has fewer such events.  The code raises ValueError at
\* the first event of every trace.
C25_Original ==
    (mode = "api" /\ pc = "finished") =>
        \A position \in 0 .. Len(trace) - 1 : \A occurrence \in 1 .. MaxOccurrence :
            LET m == CriterionPositions(trace, CriterionAt(position))
                nth == {i \in m : Cardinality({j \in m : j <= i}) = occurrence}
                r == find_trace_position(trace, CriterionAt(position), occurrence)
            IN IF nth = {} THEN r.err = "ValueError"
               ELSE r.err = "" /\ r.position \in nth

(***************************************************************************)
(* The execution-flow reconstructor.                                       *)
(***************************************************************************)
\* what get_last_instruction returns to the iteration slice() is about to make
NextLastState ==
    get_last_instruction(trace, sl.file, sl.curr_instr, sl.trace_position, sl.offset,
                         sl.code_object_id, sl.basic_block_id, sl.import_back_call)

\* the event get_last_instruction reads as the last traced one
LastTraced == EventAt(trace, sl.trace_position)

\* slice() is at the first instruction of a basic block and events remain
AtBlockStart ==
    /\ pc = "slicing"
    /\ sl.trace_position \in 0 .. Len(trace) - 1
    /\ locate_in_basic_block(sl.curr_instr, sl.offset, sl.code_object_id,
                             sl.basic_block_id) = 0

\* the block was jumped to by the last traced event
JumpedTo ==
    /\ is_jump_target(sl.code_object_id, sl.basic_block_id, sl.offset)
    /\ LastTraced.kind = "jump"
    /\ LastTraced.n = sl.basic_block_id

\* the search inside the code object finds nothing and no import instruction
\* was supplied
NothingBefore ==
    /\ AtBlockStart
    /\ sl.basic_block_id = 0
    /\ ~JumpedTo
    /\ ~HasInstr(sl.import_back_call)

\* the result is the instruction of the last traced event
AtLastTraced(state) ==
    /\ state.err = ""
    /\ state.last_instr =
          LocateByOpcode(LastTraced.op, LastTraced.line, LastTraced.offset, LastTraced.co,
                         LastTraced.bb)
    /\ state.code_object_id = LastTraced.co
    /\ state.basic_block_id = LastTraced.bb
    /\ state.offset = LastTraced.offset

\* C26 as stated: at the first instruction of a code object, with events left
\* and no import instruction, get_last_instruction returns the instruction of
\* the last traced event with call = true, whatever the event is.  When the
\* event is a return the code sets returned, not call.
C26_Original ==
    NothingBefore => AtLastTraced(NextLastState) /\ NextLastState.call

\* C26, amended: the result is the instruction of the last traced event; call
\* is true unless that event is a return, and then returned is true and call
\* is false
C26_CallBoundary ==
    NothingBefore =>
        /\ AtLastTraced(NextLastState)
        /\ IF LastTraced.op \in OP_RETURN
           THEN NextLastState.returned /\ ~NextLastState.call
           ELSE NextLastState.call /\ ~NextLastState.returned

\* the walk is at the first instruction of a called function and the last
\* traced event is the call
C26_Witness ==
    /\ NothingBefore
    /\ LastTraced.kind = "call"
    /\ NextLastState.call
    /\ NextLastState.code_object_id # sl.code_object_id

\* slice() is at the first instruction of a basic block that is a jump target
AtJumpTarget ==
    AtBlockStart /\ is_jump_target(sl.code_object_id, sl.basic_block_id, sl.offset)

\* the last instruction of the basic block with the next lower id
LastOfBlockBefore == _get_last_in_basic_block(sl.code_object_id, sl.basic_block_id - 1)

\* the result is the last instruction of the block before
AtBlockBefore(state) ==
    /\ state.err = ""
    /\ state.last_instr = LastOfBlockBefore
    /\ state.code_object_id = sl.code_object_id
    /\ state.basic_block_id = sl.basic_block_id - 1
    /\ state.offset = sl.offset - 2

\* the later cases of get_last_instruction leave a predecessor p found in the
\* code object: no return to follow from it, no generator, and no traced
\* instruction that differs from the last traced event
KeepsPredecessor(p) ==
    /\ ~ (/\ LastTraced.op \in OP_RETURN
          /\ (sl.curr_instr.op = "IMPORT_NAME" \/ p.op \in OP_CALL))
    /\ p.op \notin {"YIELD_VALUE", "YIELD_FROM"}
    /\ ~ (is_traced_instruction(p) /\ p.op # LastTraced.op)

NextUniqueInstr ==
    UniqueInstruction(NextLastState.file, NextLastState.last_instr,
                      NextLastState.code_object_id, NextLastState.basic_block_id,
                      NextLastState.offset)

\* the next iteration handles a conditional branch
AtCondBranch ==
    /\ pc = "slicing"
    /\ NextLastState.err = ""
    /\ NextLastState.last_instr.op \in COND_BRANCH_INSTRUCTIONS

\* what check_control_dependency answers for that branch
ControlDep ==
    check_control_dependency(context, NextUniqueInstr, NextLastState.code_object_id)

\* the entries of S_C whose node is a successor of the branch's node in the
\* CDG of the branch's code object
ControlledByBranch ==
    {k \in context.S_C :
        k.bb \in CdgSuccessors(NextLastState.code_object_id, NextLastState.basic_block_id)}

\* the entries of S_C that have the branch's node among the CDG successors of
\* their own node
ControllingBranch ==
    {k \in context.S_C : NextLastState.basic_block_id \in CdgSuccessors(k.co, k.bb)}

\* the step appends its instruction to DS
StepInSlice == Len(context'.DS) > Len(context.DS)

\* S_C after the step is S_C without removed; the branch itself may be
\* registered again by add_control_dependencies
ScWithout(removed) ==
    context'.S_C \ {SetKey(NextUniqueInstr)}
        = (context.S_C \ removed) \ {SetKey(NextUniqueInstr)}

\* C28 as stated: a conditional branch reached by the backward walk gets
\* control_dep = true exactly when S_C holds an entry whose CDG successors
\* include the branch's node, and exactly those entries are removed.  The
\* code looks the other way along the edges of the CDG.
C28_Original ==
    [][StepOn(COND_BRANCH_INSTRUCTIONS) =>
         /\ ControlDep.dep <=> ControllingBranch # {}
         /\ ScWithout(ControllingBranch)]_vars

\* C28, amended: control_dep is true exactly when S_C holds an entry whose
\* node is among the CDG successors of the branch's node (the entry is control
\* dependent on the branch), the nodes being compared by id in the CDG of the
\* branch's code object; those entries and no others are removed from S_C, and
\* a branch with control_dep = true is in the slice
C28_ControlDependentEntries ==
    [][StepOn(COND_BRANCH_INSTRUCTIONS) =>
         /\ ControlDep.dep <=> ControlledByBranch # {}
         /\ ControlDep.ctx.S_C = context.S_C \ ControlledByBranch
         /\ ControlDep.dep => StepInSlice
         /\ ScWithout(ControlledByBranch)]_vars

\* the walk is about to handle a conditional branch that an entry of S_C is
\* control dependent on, next to an entry that is not
C28_Witness ==
    /\ AtCondBranch
    /\ ControlledByBranch # {}
    /\ ControlledByBranch # context.S_C

(***************************************************************************)
(* C29: how long new_attribute_object_uses keeps the names it is given.    *)
(***************************************************************************)
\* slice() completes an iteration in this step
IterationDone == pc = "slicing" /\ sl'.steps = sl.steps + 1

\* the names that check_explicit_data_dependency found at an object creation
\* and that no frame has been given yet
PendingNames == sl.new_attribute_object_uses

\* C29 as stated: the attribute names returned at an object-creation def stay
\* in new_attribute_object_uses over every following step that is not a
\* return, and the next step with returned = true installs them into the
\* pushed frame.  Line 206 assigns the set anew in every iteration, so the
\* names are gone after one step that is not a return.
C29_Original ==
    [][IterationDone =>
         IF NextLastState.returned
         THEN Top(trace_stack').attribute_uses = PendingNames
         ELSE PendingNames \subseteq sl'.new_attribute_object_uses]_vars

(***************************************************************************)
(* C30: the attributes an object creation covers.                          *)
(***************************************************************************)
\* this step of slice() handles a traced def that created its object
AtObjectCreation ==
    /\ IterationDone
    /\ sl.trace_position \in 0 .. Len(trace) - 1
    /\ NextLastState.last_instr.op \in MEMORY_DEF_INSTRUCTIONS
    /\ LastTraced.kind = "mem"
    /\ LastTraced.addr # 0
    /\ LastTraced.oc

\* the entries of D_attributes that belong to the created object:
\* hex(arg_address) + "_" + name
AttributesOfCreated == {a \in context.D_attributes : a.src = LastTraced.addr}

\* C30 as stated: at a def with object_creation = true the entries of
\* D_attributes that are covered and removed are exactly those of the created
\* object, the entries of other objects stay, and the names handed on are the
\* names of the removed entries.  The code compares without the separator,
\* so that the entry of an object at 0x12 is taken for one of the object at
\* 0x1.
C30_Original ==
    [][AtObjectCreation =>
         /\ context'.D_attributes = context.D_attributes \ AttributesOfCreated
         /\ sl'.new_attribute_object_uses = {a.name : a \in AttributesOfCreated}]_vars

(***************************************************************************)
(* C31: a use is matched by the most recent def only.                      *)
(***************************************************************************)
VARIABLE_DEF_INSTRUCTIONS ==
    {"STORE_FAST", "DELETE_FAST", "STORE_NAME", "DELETE_NAME", "STORE_GLOBAL",
     "DELETE_GLOBAL", "STORE_DEREF", "DELETE_DEREF"}

\* this step of slice() handles a traced def of a variable
AtVariableDef ==
    /\ IterationDone
    /\ sl.trace_position \in 0 .. Len(trace) - 1
    /\ NextLastState.last_instr.op \in VARIABLE_DEF_INSTRUCTIONS
    /\ LastTraced.kind = "mem"

\* a use of the variable of the def is pending in ctx
UsePending(ctx) ==
    \/ <<LastTraced.arg, LastTraced.co>> \in ctx.D_local
    \/ <<LastTraced.arg, LastTraced.file>> \in ctx.D_global
    \/ \E t \in ctx.D_nonlocal : t[1] = LastTraced.arg /\ LastTraced.co \in t[2]

\* the pending uses of variables
PendingUses(ctx) == ctx.D_local \cup ctx.D_global \cup ctx.D_nonlocal

\* DS holds an instruction of the code object with one of the opcodes on the
\* variable
InSliceOn(ops, name, co) ==
    \E i \in 1 .. Len(context.DS) :
        context.DS[i].op \in ops /\ context.DS[i].arg = name /\ context.DS[i].co = co

AtPartialCover ==
    /\ IterationDone
    /\ sl.trace_position \in 0 .. Len(trace) - 1
    /\ NextLastState.last_instr.op \in MEMORY_DEF_INSTRUCTIONS
    /\ LastTraced.kind = "attr"
    /\ LastTraced.src \in context.D_addresses
    /\ CombinedAttr(LastTraced) \notin context.D_attributes

\* C32: an attribute def whose object address is in D_addresses is an
\* explicit data dependence and is put into the slice although its combined
\* key is not in D_attributes, and no address is removed from D_addresses
\* (D_addresses is unchanged unless the instruction is also a use that
\* registers more); an address leaves D_addresses only at the traced def that
\* created its object
C32_PartialCover ==
    /\ [][AtPartialCover =>
         /\ StepInSlice
         /\ LastTraced.src \in context'.D_addresses
         /\ context.D_addresses \subseteq context'.D_addresses
         /\ NextLastState.last_instr.op \notin MEMORY_USE_INSTRUCTIONS
               => context'.D_addresses = context.D_addresses]_vars
       /\ [][IterationDone /\ ~(context.D_addresses \subseteq context'.D_addresses)
               => /\ sl.trace_position \in 0 .. Len(trace) - 1
                  /\ LastTraced.kind = "mem"
                  /\ LastTraced.oc
                  /\ context.D_addresses \ context'.D_addresses = {LastTraced.addr}]_vars

\* the walk has just put a STORE_ATTR into the slice whose object is pending
\* and of whose attribute the slice holds no use
C32_Witness ==
    /\ pc = "slicing"
    /\ sl.curr_instr.op = "STORE_ATTR"
    /\ sl.curr_instr.src \in context.D_addresses
    /\ context.DS # <<>>
    /\ context.DS[Len(context.DS)].op = "STORE_ATTR"
    /\ context.DS[Len(context.DS)].offset = sl.offset
    /\ ~InSliceOn({"LOAD_ATTR", "LOAD_METHOD"}, sl.curr_instr.arg, sl.code_object_id)

(***************************************************************************)
(* C33: where the stack simulation is resumed.                             *)
(***************************************************************************)
\* an instruction of the code object raises an exception at run time
HasRaise(co) ==
    \E bb \in 1 .. Len(Code(co).blocks) :
        \E i \in 1 .. Len(Code(co).blocks[bb]) : Code(co).blocks[bb][i].raises

\* this step of slice() resumes the stack simulation
Resumes == pc = "slicing" /\ ~sl.stack_simulation /\ sl'.stack_simulation

\* C33 as stated: once the stack simulation is disabled in a frame, it stays
\* disabled until the walk leaves that very frame through its call or
\* import-start boundary, so that it is resumed only on leaving a frame in
\* which it can have been disabled: one whose code has an opcode with
\* uncertain stack effect or raises an exception.  The code resumes it at
\* the next call boundary, also that of a function the frame called.
C33_Original ==
    [][Resumes => HasUncertain(sl.code_object_id) \/ HasRaise(sl.code_object_id)]_vars

(***************************************************************************)
(* C34: unconditional jumps that were taken.                               *)
(***************************************************************************)
\* this step of slice() handles an unconditional jump that
\* get_last_instruction reports as taken
AtTakenJump ==
    /\ IterationDone
    /\ NextLastState.jump
    /\ NextLastState.last_instr.op \in UNCOND_JUMP

\* the instruction slice() is at is the one appended to DS last
LastInSlice ==
    /\ context.DS # <<>>
    /\ context.DS[Len(context.DS)].op = sl.curr_instr.op
    /\ context.DS[Len(context.DS)].co = sl.code_object_id
    /\ context.DS[Len(context.DS)].offset = sl.offset

\* C34: every unconditional jump that the flow reconstruction reports as
\* taken is appended to DS, whether or not a control, explicit or stack
\* dependence holds for it
C34_TakenJumpInSlice ==
    [][AtTakenJump =>
         /\ StepInSlice
         /\ context'.DS[Len(context'.DS)].op = NextLastState.last_instr.op
         /\ context'.DS[Len(context'.DS)].co = NextLastState.code_object_id
         /\ context'.DS[Len(context'.DS)].offset = NextLastState.offset]_vars

\* a taken JUMP_FORWARD has been put into the slice in a walk in which
\* nothing has been found dependent so far
C34_Witness ==
    /\ pc = "slicing"
    /\ sl.curr_instr.op \in UNCOND_JUMP
    /\ LastInSlice
    /\ sl.steps >= 1
    /\ ~sl.code_object_dependent

(***************************************************************************)
(* The flags of the state get_last_instruction returns.                    *)
(***************************************************************************)
\* how many of the flags jump, call, returned and exception a state carries
FlowFlags(state) ==
    Cardinality({f \in {"jump", "call", "returned", "exception"} : state[f]})

\* C35: in every state get_last_instruction returns, at most one of jump,
\* call, returned and exception is true, and import_start is true only
\* together with call or when no event of the trace was left (trace_pos < 0)
C35_FlagsExclusive ==
    pc = "slicing" /\ NextLastState.err = ""
        => /\ FlowFlags(NextLastState) <= 1
           /\ NextLastState.import_start
                => NextLastState.call \/ sl.trace_position < 0

\* the head of an imported module is reached while events remain: call and
\* import_start are returned together
C35_Witness ==
    /\ pc = "slicing"
    /\ NextLastState.err = ""
    /\ sl.trace_position >= 0
    /\ NextLastState.import_start
    /\ NextLastState.call
    /\ FlowFlags(NextLastState) = 1

(***************************************************************************)
(* The indices with which the trace is read.                               *)
(***************************************************************************)
\* the iteration slice() is about to make reads the event at trace_position
\* (line 164): get_last_instruction has returned a traced instruction
ReadsEvent ==
    /\ pc = "slicing"
    /\ NextLastState.err = ""
    /\ HasInstr(NextLastState.last_instr)
    /\ is_traced_instruction(NextLastState.last_instr)

\* the position slice() was called with: the event before the criterion's
StartPosition == sl.slicing_criterion.ev - 1

\* C36: every index with which the trace is read lies between 0 and the
\* start position, the trace position never increases, and no event is read
\* once the position is below 0
C36_Original ==
    /\ [](ReadsEvent => sl.trace_position \in 0 .. StartPosition)
    /\ [][IterationDone => sl'.trace_position <= sl.trace_position]_vars

(***************************************************************************)
(* Local variables and the invocations of a code object.                   *)
(***************************************************************************)
\* the event is a call that enters an instrumented code object
EntersFrame(ev) ==
    ev.kind = "call" /\ InstrAt(ev.co, ev.bb, IndexOf(ev)).callee >= 0

\* the depth of the frame of event q relative to the frame that is running
\* after event k at depth d, -1 when that frame has returned before q
RECURSIVE RelDepth(_, _, _)
RelDepth(k, q, d) ==
    IF k >= q THEN d
    ELSE LET ev == EventAt(trace, k)
             after == IF EntersFrame(ev) THEN d + 1
                      ELSE IF ev.op = "RETURN_VALUE" THEN d - 1
                      ELSE d
         IN IF after < 0 THEN -1 ELSE RelDepth(k + 1, q, after)

\* events p < q were recorded by the same invocation of their code object
SameInvocation(p, q) == p < q /\ RelDepth(p, q, 0) = 0

\* this step of slice() handles a traced STORE_FAST whose variable is in
\* D_local
AtCoveringLocalDef ==
    /\ AtVariableDef
    /\ NextLastState.last_instr.op = "STORE_FAST"
    /\ <<LastTraced.arg, LastTraced.co>> \in context.D_local

\* C37 as stated: a STORE_FAST covers a pending use in D_local only when the
\* use was executed in the invocation of the def: some use of the variable
\* that is in the slice was recorded by the same invocation after the def
\* (otherwise the def would neither enter the slice nor change D_local)
C37_Original ==
    [][AtCoveringLocalDef =>
          \/ \E i \in 1 .. Len(context.DS) :
                /\ context.DS[i].op \in MEMORY_USE_INSTRUCTIONS
                /\ context.DS[i].arg = LastTraced.arg
                /\ context.DS[i].co = LastTraced.co
                /\ context.DS[i].ev >= 0
                /\ SameInvocation(sl.trace_position, context.DS[i].ev)
          \/ ~StepInSlice /\ context'.D_local = context.D_local]_vars

(***************************************************************************)
(* Control dependence and the code object of the entries of S_C.           *)
(***************************************************************************)
\* the entries of S_C that belong to the code object of the branch
OwnEntries == {k \in context.S_C : k.co = NextLastState.code_object_id}

\* C38 as stated: a conditional branch is found control dependent only on
\* account of entries of S_C of its own code object, and the step leaves the
\* entries of other code objects in S_C
C38_Original ==
    [][AtCondBranch /\ IterationDone =>
          /\ ControlDep.dep => ControlledByBranch \cap OwnEntries # {}
          /\ context.S_C \ OwnEntries \subseteq context'.S_C]_vars

(***************************************************************************)
(* The frame on top of the TraceStack and the code object of the walk.     *)
(***************************************************************************)
\* the top frame is pre-allocated or artificial, or was pushed for the code
\* object slice() is in
TopFrameOfWalk ==
    trace_stack # <<>> => Top(trace_stack).co \in {-1, sl.code_object_id}

\* the step of slice() pushes or pops a frame (lines 173-186)
PushesOrPops ==
    NextLastState.returned \/ NextLastState.call \/ NextLastState.import_start

\* C39 as stated: while the stack is simulated the top frame is a frame with
\* code object id -1 or a frame of the code object of the walk, and every
\* step that changes the code object pushes or pops a frame
C39_Original ==
    /\ [](pc = "slicing" /\ sl.stack_simulation => TopFrameOfWalk)
    /\ [][IterationDone /\ sl'.code_object_id # sl.code_object_id => PushesOrPops]_vars

(***************************************************************************)
(* The assertions the tracer closes.                                       *)
(***************************************************************************)
\* the next step calls end_assertion: the running code loads an assert
\* method of TestCase while an assertion is open, or stopTest of a successful
\* test calls get_trace while one is open
ClosesAssertion ==
    /\ current_assertion # NoAssertion
    /\ \/ /\ pc = "running"
          /\ CurrentInstr.tc
          /\ CurrentInstr.op \in MEMORY_USE_INSTRUCTIONS
       \/ SuccessAtStop

\* C40 as stated: whenever the tracer closes an assertion, the three checks
\* of end_assertion hold for it: it has a call, the call is CALL_METHOD,
\* CALL_FUNCTION_KW or CALL_FUNCTION_EX, and its end position is above 0
C40_Original == ClosesAssertion => EndAssertionOk(current_assertion)

=====
